---- MODULE Spec2Model ----
(***************************************************************************)
(* The schema engine of tyshemo (src/src/schema.js): one Schema holding    *)
(* per-field meta bags, and its operations get, $set, set, $validate,      *)
(* validate, parse, export, required/disabled/readonly, with the error     *)
(* routing of _trydo.  `$name` of the source is written `dname` here.      *)
(*                                                                         *)
(* A JavaScript value is a record [t, s]: t is its type tag, s its payload *)
(* as text.  A meta of a field is a record [k, v]: k says what the meta is *)
(* (absent, a plain value, or a function with a given behaviour), v the    *)
(* value it holds or returns.  Every operation threads a machine record    *)
(* m = [log, calls, heap]: log is what onError received, in order, calls   *)
(* the user functions and type checks that were invoked, in order, heap    *)
(* the identity the next object created will get.  An operation yields an  *)
(* outcome [st, v, m], st = "ret" or "throw".  store is the raw data of    *)
(* the model that owns the schema, heap the next free object identity, ty  *)
(* a Ty: the one behind the facade Ty.expect, Ty.catch, or one made by new  *)
(* Ty(), prototypes the registry of Prototype, rule a rule made by asynch, *)
(* microtasks the callbacks that wait for the running code to return, in   *)
(* order, trace a TraceModel.                                              *)
(***************************************************************************)
EXTENDS Integers, Sequences, FiniteSets, TLC

VARIABLES schema, onErrorRet, op, result, store, heap, ty, prototypes, rule,
          microtasks, trace

vars ==
  <<schema, onErrorRet, op, result, store, heap, ty, prototypes, rule,
    microtasks, trace>>

(* What the calls of the schema, of Ty, of Tuple and of Prototype leave    *)
(* alone.                                                                  *)
others == <<rule, microtasks, trace>>

(* ------------------------------ values -------------------------------- *)

V(t, s) == [t |-> t, s |-> s]

Undefined == V("undefined", "")

Null == V("null", "")

True == V("boolean", "true")

False == V("boolean", "false")

Num(s) == V("number", s)

Str(s) == V("string", s)

Err(s) == V("error", s)

Arr(s) == V("array", s)

Obj(s) == V("object", s)

Bool(b) == IF b THEN True ELSE False

Truthy(v) ==
  ~ (v.t \in {"undefined", "null"}
     \/ v = False \/ v = Num("0") \/ v = Num("NaN") \/ v = Str(""))

isString(v) == v.t = "string"

isBoolean(v) == v.t = "boolean"

isArray(v) == v.t = "array"

isNumber(v) == v.t = "number" /\ v.s # "NaN"

isUndefined(v) == v.t = "undefined"

isError(v) == v.t = "error"

isEmpty(v) ==
  \/ v.t \in {"undefined", "null"}
  \/ v = Str("")
  \/ v = Num("NaN")
  \/ v = Arr("")
  \/ v = Obj("")

(* The error records a sub-model's validate() returns; a validator whose   *)
(* validate function returns an array returns one of these arrays.         *)
SubError(n) ==
  [key |-> "sub", value |-> Undefined, flag |-> "none", at |-> n,
   error |-> Undefined,
   message |-> Str("sub error")]

ArrElems(v) ==
  IF v = Arr("e0") THEN <<SubError(0)>>
  ELSE IF v = Arr("e0,e1") THEN <<SubError(0), SubError(1)>>
  ELSE <<>>

(* ------------------------------ metas --------------------------------- *)

F(k, v) == [k |-> k, v |-> v]

Absent == F("absent", Undefined)

Val(v) == F("val", v)

Const(v) == F("const", v)

Throws == F("throw", Undefined)

Id == F("id", Undefined)

StringCtor == F("String", Undefined)

(* required / readonly / disabled: boolean | string | function |          *)
(* {determine, message}.                                                   *)
Node(k, v, det, msg) == [k |-> k, v |-> v, det |-> det, msg |-> msg]

NAbsent == Node("absent", Undefined, Absent, Absent)

NVal(v) == Node("val", v, Absent, Absent)

NFn(f) == Node(f.k, f.v, Absent, Absent)

NObj(det, msg) == Node("obj", Undefined, det, msg)

isFunction(f) ==
  f.k \in {"throw", "const", "id", "String", "ctor", "toNumber", "toText",
           "positive"}

isObject(f) == f.k = "obj"

MetaValue(f) == IF f.k = "val" THEN f.v ELSE Undefined

(* +value.                                                                 *)
NumericText == {"0", "12", "14"}

ToNumber(v) ==
  CASE v.t = "number" -> v
    [] v.t = "string" /\ v.s = "" -> Num("0")
    [] v.t = "string" /\ v.s \in NumericText -> Num(v.s)
    [] v.t = "null" -> Num("0")
    [] v = True -> Num("1")
    [] v = False -> Num("0")
    [] OTHER -> Num("NaN")

(* value + ''.                                                             *)
ToText(v) ==
  CASE v.t \in {"number", "string", "boolean"} -> Str(v.s)
    [] v.t = "undefined" -> Str("undefined")
    [] v.t = "null" -> Str("null")
    [] v.t = "object" -> Str("[object Object]")
    [] OTHER -> Str(v.s)

(* The setter and the getter of age: numeric text to number, number to     *)
(* text.                                                                   *)
NumberSetter == F("toNumber", Undefined)

TextGetter == F("toText", Undefined)

(* The validate function v => v > 0.                                       *)
Positive == F("positive", Undefined)

(* What calling the meta as a function does: [thrown, v].  Calling what is *)
(* not a function is a TypeError.                                          *)
Apply(f, arg) ==
  CASE f.k = "throw" -> [thrown |-> TRUE, v |-> Err("boom")]
    [] f.k = "const" -> [thrown |-> FALSE, v |-> f.v]
    [] f.k = "id" -> [thrown |-> FALSE, v |-> arg]
    [] f.k = "String" -> [thrown |-> FALSE, v |-> Str(arg.s)]
    [] f.k = "toNumber" ->
         [thrown |-> FALSE,
          v |-> IF ToNumber(arg) # Num("NaN") THEN ToNumber(arg) ELSE Num("0")]
    [] f.k = "toText" ->
         [thrown |-> FALSE, v |-> IF Truthy(arg) THEN ToText(arg) ELSE Str("")]
    [] f.k = "positive" ->
         [thrown |-> FALSE, v |-> Bool(ToNumber(arg).s \in {"1", "12", "14"})]
    [] OTHER -> [thrown |-> TRUE, v |-> Err("TypeError")]

(* ------------------------------ machine ------------------------------- *)

(* The identities below FirstFree belong to the objects of the schema      *)
(* definitions.                                                            *)
FirstFree == 4

(* No object is created once the heap has reached MaxHeap.                 *)
MaxHeap == 12

(* $default is called at most MaxCalls + 1 times in a row.                  *)
MaxCalls == 2

(* The machine a call starts with: nothing logged, nothing called.        *)
M0 == [log |-> <<>>, calls |-> <<>>, heap |-> heap]

Ret(v, m) == [st |-> "ret", v |-> v, m |-> m]

Throw(e, m) == [st |-> "throw", v |-> e, m |-> m]

Call(m, fn, key, arg) ==
  [m EXCEPT !.calls = Append(@, [fn |-> fn, key |-> key, arg |-> arg])]

(* -------------------------- object identity -------------------------- *)

(* An object or an array whose identity matters: id is the identity, kids  *)
(* the values it holds, in order.                                          *)
Box(t, id, kids) == [t |-> t, s |-> "", id |-> id, kids |-> kids]

hasIdentity(v) == "id" \in DOMAIN v

isPlainObject(v) == v.t = "object"

(* The identities of a value: its own and those of what it holds, at any   *)
(* depth.                                                                  *)
RECURSIVE Ids(_)
Ids(v) ==
  IF hasIdentity(v)
  THEN {v.id} \cup UNION {Ids(v.kids[i]) : i \in DOMAIN v.kids}
  ELSE {}

(* What a value holds, identities left out.                                *)
RECURSIVE Shape(_)
Shape(v) ==
  IF hasIdentity(v)
  THEN [t |-> v.t, kids |-> [i \in DOMAIN v.kids |-> Shape(v.kids[i])]]
  ELSE v

(* clone(value) of ts-fns: a deep copy.  Every object and array of the     *)
(* value is created anew, h being the next free identity; a value that is  *)
(* no object is copied as it is.  The outcome [v, h] is the copy and the    *)
(* next free identity after it.                                            *)
RECURSIVE clone(_, _)

RECURSIVE cloneEach(_, _)

cloneJoin(v, rest) == [v |-> <<v>> \o rest.v, h |-> rest.h]

cloneRest(first, kids) == cloneJoin(first.v, cloneEach(kids, first.h))

cloneEach(kids, h) ==
  IF kids = <<>>
  THEN [v |-> <<>>, h |-> h]
  ELSE cloneRest(clone(Head(kids), h), Tail(kids))

cloneBox(v, h, ks) == [v |-> [v EXCEPT !.id = h, !.kids = ks.v], h |-> ks.h]

clone(v, h) ==
  IF hasIdentity(v)
  THEN cloneBox(v, h, cloneEach(v.kids, h + 1))
  ELSE [v |-> v, h |-> h]

(* The outcome of an operation that returns a clone.                       *)
cloned(c, m) == Ret(c.v, [m EXCEPT !.heap = c.h])

(* The record _trydo builds: {key, meta, error}.                          *)
MetaErr(key, meta, error) ==
  [key |-> key, flag |-> "meta", meta |-> meta, action |-> "", value |-> Undefined,
   next |-> Undefined, prev |-> Undefined, error |-> error, message |-> Undefined]

(* The records $set, set and parse hand to onError.                       *)
FlagErr(key, action, flag, value, next, prev, error, message) ==
  [key |-> key, flag |-> flag, meta |-> "", action |-> action, value |-> value,
   next |-> next, prev |-> prev, error |-> error, message |-> message]

(* this.onError(err): what it received goes to log, and the call itself to *)
(* calls, so that its place among the other calls is known.                *)
onError(err, m) ==
  [log |-> Append(m.log, err),
   calls |-> Append(m.calls, [fn |-> "onError", key |-> err.key, arg |-> err]),
   heap |-> m.heap]

(* fallback closures: isFunction(handle) && handle.call(ctx, e) || dflt    *)
Fallback(handle, key, e, dflt, m) ==
  IF isFunction(handle)
  THEN LET m1 == Call(m, "catch", key, e)
           r == Apply(handle, Undefined)
       IN IF r.thrown THEN Throw(r.v, m1)
          ELSE Ret(IF Truthy(r.v) THEN r.v ELSE dflt, m1)
  ELSE Ret(dflt, m)

(* _trydo handing the record it built to the fallback, whatever onError    *)
(* returned.                                                               *)
_trydo_dropsSubstitute(r, key, meta, handle, dflt, force, m) ==
  IF ~ r.thrown THEN Ret(r.v, m)
  ELSE IF force THEN Throw(r.v, m)
  ELSE LET err == MetaErr(key, meta, r.v)
       IN Fallback(handle, key, err, dflt, onError(err, m))

(* _trydo(fn, fallback, basic, force): r is what running fn does, m the    *)
(* machine after fn ran.                                                   *)
_trydo(r, key, meta, handle, dflt, force, m) ==
  IF ~ r.thrown THEN Ret(r.v, m)
  ELSE IF force THEN Throw(r.v, m)
  ELSE LET err == MetaErr(key, meta, r.v)
           m1 == onError(err, m)
           e == IF Truthy(onErrorRet) THEN onErrorRet ELSE err
       IN Fallback(handle, key, e, dflt, m1)

(* ------------------------------ schema -------------------------------- *)

(* A field definition with no meta set.                                    *)
NoDef ==
  [default |-> Val(Undefined), type |-> "none", message |-> Absent,
   compute |-> Absent, setter |-> Absent, getter |-> Absent,
   validators |-> <<>>, create |-> Absent, drop |-> Absent, map |-> Absent,
   flat |-> [k |-> "absent", p |-> [x \in {} |-> Undefined]],
   required |-> NAbsent, readonly |-> NAbsent, disabled |-> NAbsent,
   catch |-> Absent]

dhas(key) == key \in DOMAIN schema

(* The node $message and $determine read for a meta: def[meta].            *)
TypeNode(type) ==
  CASE type = "none" -> NAbsent
    [] type \in {"String", "Number"} -> Node("ctor", Undefined, Absent, Absent)
    [] type = "ifexist(String)" -> Node("rule", Undefined, Absent, Absent)
    [] type = "{message:String}" -> NObj(Absent, StringCtor)
    [] OTHER -> NObj(Absent, Absent)

NodeOf(def, meta) ==
  CASE meta = "type" -> TypeNode(def.type)
    [] meta = "compute" -> NFn(def.compute)
    [] OTHER -> def[meta]

NodeFalsy(node) ==
  node.k = "absent" \/ (node.k = "val" /\ ~ Truthy(node.v))

(* Ty.catch(value).by(type), and for a Rule Ty.catch(target).by({[key]:    *)
(* type}) where target holds key only when value is not undefined.         *)
TyCatch(type, value) ==
  LET ok ==
        CASE type = "String" -> isString(value)
          [] type = "Number" -> isNumber(value)
          [] type = "ifexist(String)" -> isUndefined(value) \/ isString(value)
          [] type = "{message:String}" -> value = Obj("message")
          [] OTHER -> FALSE
  IN IF ok THEN Null ELSE Err("TyError")

(* ------------------------------- Ty ----------------------------------- *)

(* A Ty, lines 7-10: no listener, not silent.  facade says that it is the  *)
(* one the module keeps for Ty.expect, Ty.catch, ...: nothing outside the  *)
(* module can reach it to call silent or bind on it.                       *)
NewTy(facade) == [facade |-> facade, _silent |-> FALSE, _listeners |-> <<>>]

Facade == NewTy(TRUE)

(* type.catch(value) of a Type: the error of the mismatch, or null.        *)
typeCatch(type, value) == TyCatch(type, value)

(* type.assert(value) of a Type: throws the error of the mismatch.         *)
typeAssert(type, value, m) ==
  IF typeCatch(type, value) = Null
  THEN Ret(Undefined, m)
  ELSE Throw(typeCatch(type, value), m)

(* dispatch(error) that schedules no listener of a silent Ty.              *)
dispatch_unlessSilent(error, m) ==
  IF ty._silent THEN m
  ELSE [m EXCEPT !.calls =
          @ \o [i \in DOMAIN ty._listeners |->
                  [fn |-> "then", key |-> ty._listeners[i], arg |-> error]]]

(* dispatch(error), lines 26-31: Promise.resolve().then(...) is called for *)
(* every listener, in order; none of them runs before the caller has       *)
(* returned.                                                               *)
dispatch(error, m) ==
  [m EXCEPT !.calls =
     @ \o [i \in DOMAIN ty._listeners |->
             [fn |-> "then", key |-> ty._listeners[i], arg |-> error]]]

(* The callbacks the calls of m have put on the microtask queue.           *)
queued(m) ==
  LET thens == SelectSeq(m.calls, LAMBDA c : c.fn = "then")
  IN [i \in DOMAIN thens |->
        [kind |-> "listener", fn |-> thens[i].key, arg |-> thens[i].arg]]

(* unbind(fn), lines 18-25: forEach visits the indexes i < len that the    *)
(* array still has, and splice(i, 1) moves the later items down while it   *)
(* runs.                                                                   *)
RECURSIVE unbindEach(_, _, _, _)
unbindEach(listeners, fn, i, len) ==
  IF i >= len THEN listeners
  ELSE IF i < Len(listeners) /\ listeners[i + 1] = fn
  THEN unbindEach(SubSeq(listeners, 1, i)
                    \o SubSeq(listeners, i + 2, Len(listeners)),
                  fn, i + 1, len)
  ELSE unbindEach(listeners, fn, i + 1, len)

unbind(fn) == unbindEach(ty._listeners, fn, 0, Len(ty._listeners))

(* throw(error) that throws whether the Ty is silent or not.               *)
tythrow_ignoresSilent(error, m) == Throw(error, dispatch(error, m))

(* throw(error), lines 36-42                                               *)
tythrow(error, m) ==
  IF ~ ty._silent
  THEN Throw(error, dispatch(error, m))
  ELSE Ret(Undefined, dispatch(error, m))

(* expect(value).to.match(type), lines 58-61: what follows this.throw(e).  *)
expectThrown(o) == IF o.st = "throw" THEN o ELSE Ret(False, o.m)

(* expect(value).to.match(type), lines 54-61: what follows the assertion.  *)
expectAsserted(o) ==
  IF o.st = "ret" THEN Ret(True, o.m) ELSE expectThrown(tythrow(o.v, o.m))

(* expect(value).to.match(type), lines 48-62                               *)
expectMatch(value, type, m) == expectAsserted(typeAssert(type, value, m))

(* catch(value).by(type), lines 74-85                                      *)
catchBy(value, type, m) ==
  IF Truthy(typeCatch(type, value))
  THEN Ret(typeCatch(type, value), dispatch(typeCatch(type, value), m))
  ELSE Ret(typeCatch(type, value), m)

(* is(arg).typeof(value), lines 122-133                                    *)
isTypeof(arg, value, m) ==
  IF Truthy(typeCatch(arg, value))
  THEN Ret(False, dispatch(typeCatch(arg, value), m))
  ELSE Ret(True, m)

(* ------------------------------ Tuple --------------------------------- *)

(* An array value: its items in order.                                     *)
ArrayOf(items) == Box("array", 0, items)

NoIndex == -1

(* A TyError: its kind, and the index its info names, if any.              *)
TyErr(kind, index) == [t |-> "error", s |-> kind, index |-> index]

(* makeError(error, info): the error, with the info's index.               *)
makeError(error, index) == [error EXCEPT !.index = index]

(* patterns[i] of a JavaScript array, i counted from 0: undefined beyond   *)
(* its end.                                                                *)
PatternAt(patterns, i) ==
  IF i + 1 \in DOMAIN patterns THEN patterns[i + 1] ELSE "undefined"

isRule(pattern) == pattern = "ifexist(String)"

(* this.validate(value, pattern) of Type: null when the value matches the  *)
(* pattern, else a TyError.  Only undefined matches the pattern undefined. *)
typeValidate(value, pattern) ==
  IF CASE pattern = "Number" -> isNumber(value)
       [] pattern = "String" -> isString(value)
       [] pattern = "undefined" -> isUndefined(value)
       [] OTHER -> FALSE
  THEN Null
  ELSE TyErr("mistaken", NoIndex)

(* pattern.validate2(value, i, items) of the Rule ifexist(String): the     *)
(* index exists in items, so the value is checked against String.          *)
validate2(pattern, value) == typeValidate(value, "String")

(* assert, lines 37-52: the error of one item, or null.                    *)
tupleItemError(value, pattern) ==
  IF isRule(pattern) THEN validate2(pattern, value)
  ELSE typeValidate(value, pattern)

IndexText == <<"0", "1", "2", "3">>

RECURSIVE tupleItems(_, _, _, _)

(* assert, lines 40-52: throw the item's error or go on with the next.     *)
tupleItem(patterns, items, i, error, m) ==
  IF Truthy(error)
  THEN Throw(makeError(error, i), m)
  ELSE tupleItems(patterns, items, i + 1, m)

(* assert, lines 32-53: for (let i = 0; i < itemCount; i ++)               *)
tupleItems(patterns, items, i, m) ==
  IF i < Len(items)
  THEN tupleItem(patterns, items, i,
                 tupleItemError(items[i + 1], PatternAt(patterns, i)),
                 Call(m, "validate", IndexText[i + 1], items[i + 1]))
  ELSE Ret(Undefined, m)

(* Tuple.assert(value), lines 15-54, of a Tuple with this pattern and mode *)
tupleAssert(pattern, mode, value, m) ==
  IF ~ isArray(value) THEN Throw(TyErr("mistaken", NoIndex), m)
  ELSE IF mode = "strict" /\ Len(value.kids) # Len(pattern)
  THEN Throw(TyErr("dirty", NoIndex), m)
  ELSE tupleItems(pattern, value.kids, 0, m)

(* ---------------------------- Prototype ------------------------------- *)

(* A token given to Prototype.is: a Prototype instance with its validate,  *)
(* NaN, a regular expression, a constructor, or something else.            *)
Tok(kind, name) == [kind |-> kind, name |-> name]

NumberCtor == Tok("constructor", "Number")

StringToken == Tok("constructor", "String")

DateCtor == Tok("constructor", "Date")

CustomCtor == Tok("constructor", "Custom")

NaNToken == Tok("nan", "NaN")

RegExpToken == Tok("regexp", "/^x/")

AnyProto == Tok("prototype", "always")

ArrowToken == Tok("other", "() => true")

TextToken == Tok("other", "'x'")

InfinityToken == Tok("other", "Infinity")

(* An instance of a class: s is the class it was made by.                  *)
Inst(s) == V("instance", s)

(* What a predicate returns for a value.                                   *)
Predicate(name, value) ==
  CASE name = "isNumber" -> Bool(isNumber(value))
    [] name = "isString" -> Bool(isString(value))
    [] name = "always" -> True
    [] OTHER -> False

(* Lines 128-136, of which Number and String are kept.                     *)
Registered ==
  <<[proto |-> NumberCtor, validate |-> "isNumber"],
    [proto |-> StringToken, validate |-> "isString"]>>

(* item.proto === proto: NaN is not equal to itself.                       *)
StrictEqual(a, b) == a = b /\ a.kind # "nan"

(* The places of the registry that hold proto, in order.                   *)
Places(proto) ==
  {i \in DOMAIN prototypes : StrictEqual(prototypes[i].proto, proto)}

(* A search of the registry that takes NaN for equal to itself.            *)
find_alsoNaN(proto) ==
  IF \E i \in DOMAIN prototypes : prototypes[i].proto = proto
  THEN prototypes[CHOOSE i \in DOMAIN prototypes :
                    /\ prototypes[i].proto = proto
                    /\ \A j \in DOMAIN prototypes :
                         prototypes[j].proto = proto => i <= j]
  ELSE [proto |-> proto, validate |-> "undefined"]

(* Prototype.find(proto), line 94: the first item that holds proto, or an  *)
(* item without validate when there is none.                               *)
find(proto) ==
  IF Places(proto) # {}
  THEN prototypes[CHOOSE i \in Places(proto) : \A j \in Places(proto) : i <= j]
  ELSE [proto |-> proto, validate |-> "undefined"]

(* isInstanceOf(value, proto): value instanceof proto                      *)
isInstanceOf(value, proto) ==
  /\ value.t = "instance"
  /\ proto.kind = "constructor"
  /\ \/ proto.name = value.s
     \/ value.s = "Sub" /\ proto.name = "Custom"

(* proto.test(value) of the regular expression /^x/                        *)
test(proto, value) == value \in {Str("x"), Str("xy")}

(* Prototype.is(proto).typeof(value), lines 100-122                        *)
protoTypeof(proto, value, m) ==
  IF proto.kind = "prototype"
  THEN Ret(Bool(Truthy(Predicate(proto.name, value))),
           Call(m, "validate", proto.name, value))
  ELSE IF find(proto).validate # "undefined"
  THEN Ret(Predicate(find(proto).validate, value),
           Call(m, "validate", find(proto).validate, value))
  ELSE IF proto.kind = "nan" THEN Ret(Bool(value = Num("NaN")), m)
  ELSE IF proto.kind = "regexp"
  THEN Ret(Bool(isString(value) /\ test(proto, value)), m)
  ELSE IF proto.kind = "constructor" THEN Ret(Bool(isInstanceOf(value, proto)), m)
  ELSE Ret(False, m)

(* Prototype.register(proto, validate), lines 71-79                        *)
register(proto, validate) ==
  IF Places(proto) # {}
  THEN [i \in DOMAIN prototypes |->
          IF i = CHOOSE k \in Places(proto) : \A j \in Places(proto) : k <= j
          THEN [prototypes[i] EXCEPT !.validate = validate]
          ELSE prototypes[i]]
  ELSE Append(prototypes, [proto |-> proto, validate |-> validate])

(* Prototype.unregister(proto), lines 86-92: the first item that holds     *)
(* proto is taken out.                                                     *)
unregister(proto) ==
  IF Places(proto) # {}
  THEN LET at == CHOOSE k \in Places(proto) : \A j \in Places(proto) : k <= j
       IN SubSeq(prototypes, 1, at - 1)
          \o SubSeq(prototypes, at + 1, Len(prototypes))
  ELSE prototypes

(* ------------------------------ asynch -------------------------------- *)

(* No rule made yet.  Of a rule made by asynch(fn): fn is what fn does     *)
(* when called, pattern the variable `pattern` of the closure that use()   *)
(* returns, field the rule's own pattern property, calls how often fn was  *)
(* called, settled whether fn's result is there ("no", "fulfilled" or      *)
(* "rejected"), res that result, switches how often the pattern was        *)
(* assigned after the rule was made.                                       *)
NoRule ==
  [made |-> FALSE, fn |-> Absent, pattern |-> "Any", field |-> "Any",
   calls |-> 0, settled |-> "no", res |-> "none", switches |-> 0]

(* A callback waiting in the microtask queue.                              *)
Task(kind, fn, arg) == [kind |-> kind, fn |-> fn, arg |-> arg]

(* asynch(fn) calling fn before it returns.                                *)
asynchRule_callsNow(fn) ==
  [NoRule EXCEPT !.made = TRUE, !.fn = fn, !.calls = 1]

(* asynch(fn), lines 187-193: pattern = Any, and the rule made of it.      *)
asynchRule(fn) == [NoRule EXCEPT !.made = TRUE, !.fn = fn]

(* createRule(res), lines 173-180: the pattern made of fn's result.        *)
createRule(res) == res

(* () => fn(), line 195: fn is called.  A value it returns is its result;  *)
(* a promise it returns has its result later; a throw rejects the chain.   *)
asynchCall(r) ==
  CASE r.fn.k = "const" ->
         [r EXCEPT !.calls = @ + 1, !.settled = "fulfilled", !.res = r.fn.v.s]
    [] r.fn.k = "throw" -> [r EXCEPT !.calls = @ + 1, !.settled = "rejected"]
    [] OTHER -> [r EXCEPT !.calls = @ + 1]

(* (res) => { pattern = createRule(res); rule.pattern = pattern }, lines    *)
(* 195-198                                                                 *)
asynchSwitch(r, res) ==
  [r EXCEPT !.pattern = createRule(res), !.field = createRule(res),
            !.switches = @ + 1]

(* use: () => pattern, line 192                                            *)
use(r) == r.pattern

(* A check of a value by the rule: null when the value matches the pattern *)
(* that use() gives, else the error.  Any matches every value.             *)
ruleCatch(r, value) ==
  IF use(r) = "Any" THEN Null ELSE typeCatch(use(r), value)

(* ----------------------------- TraceModel ----------------------------- *)

(* No TraceModel made.                                                     *)
NoTrace == [made |-> FALSE]

(* The history keeps the last MaxHistory writes.                           *)
MaxHistory == 2

(* A TraceModel: its data, its snapshots by tag, the inverse patches of    *)
(* the last writes, oldest first, and the redo tail, oldest first.         *)
NewTrace(data) ==
  [made |-> TRUE, data |-> data, commits |-> <<>>, history |-> <<>>,
   redo |-> <<>>]

(* A patch: the key and the value to give it.                              *)
PatchOf(key, value) == [key |-> key, value |-> value]

(* The last n items of a sequence.                                         *)
LastN(q, n) == IF Len(q) <= n THEN q ELSE SubSeq(q, Len(q) - n + 1, Len(q))

(* A write: the inverse patch joins the history, whose oldest item goes    *)
(* when it is full, and the redo tail is cut.                              *)
traceSet(t, key, value) ==
  [t EXCEPT !.data = (key :> value) @@ t.data,
            !.history = LastN(Append(t.history, PatchOf(key, t.data[key])),
                              MaxHistory),
            !.redo = <<>>]

(* commit(tag) keeping the snapshot the tag has already.                   *)
traceCommit_keepsFirst(t, tag) ==
  IF tag \in DOMAIN t.commits THEN t
  ELSE [t EXCEPT !.commits = (tag :> t.data) @@ t.commits]

(* commit(tag): a deep copy of the data is kept under the tag, in place of *)
(* what the tag had.                                                       *)
traceCommit(t, tag) == [t EXCEPT !.commits = (tag :> t.data) @@ t.commits]

(* reset(tag): the data is what was kept under the tag; nothing happens    *)
(* for a tag that was never committed.                                     *)
traceReset(t, tag) ==
  IF tag \in DOMAIN t.commits THEN [t EXCEPT !.data = t.commits[tag]] ELSE t

(* undo() that leaves no redo tail.                                        *)
traceUndo_forgets(t) ==
  IF t.history = <<>> THEN t
  ELSE [t EXCEPT
          !.data = (t.history[Len(t.history)].key
                      :> t.history[Len(t.history)].value) @@ t.data,
          !.history = SubSeq(t.history, 1, Len(t.history) - 1)]

(* undo(): the last inverse patch is applied and leaves the history; the   *)
(* patch that takes it back joins the redo tail.                           *)
traceUndo(t) ==
  IF t.history = <<>> THEN t
  ELSE [t EXCEPT
          !.data = (t.history[Len(t.history)].key
                      :> t.history[Len(t.history)].value) @@ t.data,
          !.history = SubSeq(t.history, 1, Len(t.history) - 1),
          !.redo = Append(t.redo,
                          PatchOf(t.history[Len(t.history)].key,
                                  t.data[t.history[Len(t.history)].key]))]

(* redo(): the last patch of the redo tail is applied and leaves it; its   *)
(* inverse joins the history.                                              *)
traceRedo(t) ==
  IF t.redo = <<>> THEN t
  ELSE [t EXCEPT
          !.data = (t.redo[Len(t.redo)].key :> t.redo[Len(t.redo)].value)
                     @@ t.data,
          !.redo = SubSeq(t.redo, 1, Len(t.redo) - 1),
          !.history = Append(t.history,
                             PatchOf(t.redo[Len(t.redo)].key,
                                     t.data[t.redo[Len(t.redo)].key]))]

(* clear(): the history and the redo tail go, the snapshots stay.          *)
traceClear(t) == [t EXCEPT !.history = <<>>, !.redo = <<>>]

defualtMessages(key, meta) ==
  CASE meta = "type" -> Str(key \o " does not match type.")
    [] meta = "compute" ->
         Str(key \o " can not be set new value because it is a computed property.")
    [] meta = "required" -> Str(key \o " is required, but receive empty.")
    [] meta = "readonly" ->
         Str(key \o " can not be set new value because of readonly.")
    [] meta = "disabled" ->
         Str(key \o " can not be set new value because of disabled.")
    [] OTHER -> Str(key \o " " \o meta \o " error.")

(* $message(key, meta, context)(givenMessage)                              *)
dmessage(key, meta, givenMessage, m) ==
  IF ~ dhas(key) THEN Ret(Str(""), m)
  ELSE
    LET def == schema[key]
        node == NodeOf(def, meta)
        defualtMessage == defualtMessages(key, meta)
    IN IF NodeFalsy(node) THEN Ret(Str(""), m)
       ELSE IF isString(givenMessage) THEN Ret(givenMessage, m)
       ELSE IF node.k = "val" /\ isBoolean(node.v) THEN Ret(defualtMessage, m)
       ELSE IF node.k = "val" /\ isString(node.v) THEN Ret(node.v, m)
       ELSE IF isFunction(node) THEN Ret(defualtMessage, m)
       ELSE IF isObject(node) /\ ~ NodeFalsy(node.msg) THEN
         IF isFunction(node.msg)
         THEN _trydo(Apply(node.msg, Str(meta)), key, "message", def.catch,
                     defualtMessage, FALSE, Call(m, "message", key, Str(meta)))
         ELSE IF isString(MetaValue(node.msg)) THEN Ret(node.msg.v, m)
         ELSE Ret(defualtMessage, m)
       ELSE Ret(defualtMessage, m)

(* $determine(key, meta, context)(fallbackRes)                             *)
ddetermine(key, meta, fallbackRes, m) ==
  IF ~ dhas(key) THEN Ret(fallbackRes, m)
  ELSE
    LET def == schema[key]
        node == def[meta]
    IN IF node.k = "absent" THEN Ret(fallbackRes, m)
       ELSE IF isObject(node) THEN
         IF isFunction(node.det)
         THEN _trydo(Apply(node.det, Undefined), key, meta, def.catch,
                     fallbackRes, FALSE, Call(m, meta, key, Undefined))
         ELSE Ret(MetaValue(node.det), m)
       ELSE IF isFunction(node)
         THEN _trydo(Apply(node, Undefined), key, meta, def.catch,
                     fallbackRes, FALSE, Call(m, meta, key, Undefined))
       ELSE Ret(node.v, m)

(* required falling back to true.                                          *)
required_fallsBackToTrue(key, m) == ddetermine(key, "required", True, m)

required(key, m) == ddetermine(key, "required", False, m)

disabled(key, m) == ddetermine(key, "disabled", False, m)

readonly(key, m) == ddetermine(key, "readonly", False, m)

get(key, value, m) ==
  IF ~ dhas(key) THEN Ret(value, m)
  ELSE
    LET def == schema[key]
    IN IF isFunction(def.compute) THEN
         LET r == Apply(def.compute, Undefined)
             m1 == Call(m, "compute", key, Undefined)
         IN IF r.thrown THEN Throw(r.v, m1) ELSE Ret(r.v, m1)
       ELSE IF isFunction(def.getter) THEN
         _trydo(Apply(def.getter, value), key, "getter", def.catch, value,
                FALSE, Call(m, "getter", key, value))
       ELSE Ret(value, m)

(* The type check shared by $set, validate and parse: the outcome's v is   *)
(* the error Ty.catch returned, or Null.                                   *)
TypeCheck(def, key, value, m) ==
  Ret(TyCatch(def.type, value), Call(m, "type", key, value))

(* dsetCompute with the written value passed through instead of the       *)
(* computed one.                                                           *)
dsetCompute_keepsWritten(key, value, m) ==
  LET msg == dmessage(key, "compute", Undefined, m)
  IN Ret(value, onError(FlagErr(key, "$set", "compute", value, Undefined,
                                Undefined, Undefined, msg.v), msg.m))

(* $set, lines 308-318: a computed field.                                 *)
dsetCompute(key, value, m) ==
  LET def == schema[key]
      msg == dmessage(key, "compute", Undefined, m)
      m1 == onError(FlagErr(key, "$set", "compute", value, Undefined,
                            Undefined, Undefined, msg.v), msg.m)
      r == Apply(def.compute, Undefined)
      m2 == Call(m1, "compute", key, Undefined)
  IN IF msg.st = "throw" THEN msg
     ELSE IF r.thrown THEN Throw(r.v, m2) ELSE Ret(r.v, m2)

(* $set storing the written value without passing it to the setter.       *)
dsetSetter_skipsSetter(key, value, m) == Ret(value, m)

(* $set, lines 320-329: the setter.                                        *)
dsetSetter(key, value, m) ==
  LET def == schema[key]
  IN IF isFunction(def.setter)
     THEN _trydo(Apply(def.setter, value), key, "setter", def.catch, value,
                 FALSE, Call(m, "setter", key, value))
     ELSE Ret(value, m)

(* The message of a type failure: $message(key, 'type', ctx)(message).     *)
typeMessage(key, m) ==
  dmessage(key, "type", MetaValue(schema[key].message), m)

(* $set, lines 331-351: the type check of the value to store.              *)
dsetType(key, value, m) ==
  LET def == schema[key]
      t == TypeCheck(def, key, value, m)
      msg == typeMessage(key, t.m)
  IN IF def.type = "none" THEN Ret(value, m)
     ELSE IF t.v = Null THEN Ret(value, t.m)
     ELSE IF msg.st = "throw" THEN msg
     ELSE Ret(value, onError(FlagErr(key, "$set", "type", value, Undefined,
                                     Undefined, t.v, msg.v), msg.m))

(* $set(key, value, context)                                               *)
dset(key, value, m) ==
  IF ~ dhas(key) THEN Ret(value, m)
  ELSE IF schema[key].compute.k # "absent" THEN dsetCompute(key, value, m)
  ELSE
    LET s == dsetSetter(key, value, m)
    IN IF s.st = "throw" THEN s ELSE dsetType(key, s.v, s.m)

(* set, lines 369-378 and 382-391: a refused write.                        *)
setRefuse(key, flag, given, next, prev, m) ==
  LET msg == dmessage(key, flag, given, m)
  IN IF msg.st = "throw" THEN msg
     ELSE Ret(prev, onError(FlagErr(key, "set", flag, Undefined, next, prev,
                                    Undefined, msg.v), msg.m))

(* set with readonly consulted before disabled.                            *)
set_readonlyFirst(key, next, prev, m) ==
  IF ~ dhas(key) THEN Ret(next, m)
  ELSE
    LET r == readonly(key, m)
        d == disabled(key, r.m)
    IN IF Truthy(r.v) THEN setRefuse(key, "readonly", r.v, next, prev, r.m)
       ELSE IF Truthy(d.v) THEN setRefuse(key, "disabled", d.v, next, prev, d.m)
       ELSE dset(key, next, d.m)

(* set(key, next, prev, context)                                           *)
set(key, next, prev, m) ==
  IF ~ dhas(key) THEN Ret(next, m)
  ELSE
    LET d == disabled(key, m)
        r == readonly(key, d.m)
    IN IF d.st = "throw" THEN d
       ELSE IF Truthy(d.v) THEN setRefuse(key, "disabled", d.v, next, prev, d.m)
       ELSE IF r.st = "throw" THEN r
       ELSE IF Truthy(r.v) THEN setRefuse(key, "readonly", r.v, next, prev, r.m)
       ELSE dset(key, next, r.m)

(* An entry of the array validate() / the $validate selector returns.      *)
ValErr(key, value, flag, at, error, message) ==
  [key |-> key, value |-> value, flag |-> flag, at |-> at, error |-> error,
   message |-> message]

IdxStr(i) == CASE i = 0 -> "0" [] i = 1 -> "1" [] i = 2 -> "2" [] i = 3 -> "3" [] OTHER -> "n"

ValidatorMeta(index, part) == "validators[" \o IdxStr(index) \o "]." \o part

(* The arrow function `validate` inside $validate (one validator), read   *)
(* from its end to its start.  Its v is the error it returns, or           *)
(* Undefined.                                                              *)

(* Lines 468-478: the message text msg1 has been resolved; a falsy one is  *)
(* replaced by a string message meta, and the error object is returned.    *)
validateError(key, value, index, message, msg1) ==
  IF msg1.st = "throw" THEN msg1
  ELSE Ret(ValErr(key, value, "none", index, Undefined,
                  IF ~ Truthy(msg1.v) /\ isString(MetaValue(message))
                  THEN message.v ELSE msg1.v),
           msg1.m)

(* Lines 450-466: the validator failed with res; its message is the        *)
(* Error's message, then what a message function returns.                  *)
validateMessage(key, value, handle, validator, index, dontTry, res) ==
  LET message == validator.message
      msg0 == IF isError(res.v) THEN Str(res.v.s) ELSE Str("")
      tpl == Str(key \o " did not pass validators[" \o IdxStr(index) \o "]")
  IN validateError(key, value, index, message,
       IF isFunction(message)
       THEN _trydo(Apply(message, value), key, ValidatorMeta(index, "message"),
                   handle, IF Truthy(msg0) THEN msg0 ELSE tpl, dontTry,
                   Call(res.m, ValidatorMeta(index, "message"), key, value))
       ELSE Ret(msg0, res.m))

(* Lines 434-448: res is what the validate function gave.  `errors` is no  *)
(* binding of the arrow function's scope (it is a local of validateByRange *)
(* / validateByIndexes and a parameter of runOne), so errors.push(...res)  *)
(* is a ReferenceError.                                                    *)
validateResult(key, value, handle, validator, index, dontTry, res) ==
  IF res.st = "throw" THEN res
  ELSE IF res.v = True THEN Ret(Undefined, res.m)
  ELSE IF isArray(res.v) THEN Throw(Err("ReferenceError"), res.m)
  ELSE validateMessage(key, value, handle, validator, index, dontTry, res)

(* Lines 426-433: d is what the validator's determine gave.                *)
validateDetermined(key, value, handle, validator, index, dontTry, d) ==
  IF d.st = "throw" THEN d
  ELSE IF ~ Truthy(d.v) THEN Ret(Undefined, d.m)
  ELSE validateResult(key, value, handle, validator, index, dontTry,
         _trydo(Apply(validator.validate, value), key,
                ValidatorMeta(index, "validate"), handle, True, dontTry,
                Call(d.m, ValidatorMeta(index, "validate"), key, value)))

validateOne(key, value, handle, validator, index, dontTry, m) ==
  LET determine == validator.determine
  IN IF determine.k = "val" /\ determine.v = False THEN Ret(Undefined, m)
     ELSE validateDetermined(key, value, handle, validator, index, dontTry,
            IF isFunction(determine)
            THEN _trydo(Apply(determine, value), key,
                        ValidatorMeta(index, "determine"), handle, False, dontTry,
                        Call(m, ValidatorMeta(index, "determine"), key, value))
            ELSE Ret(True, m))

(* if (error) { errors.push(error) }: e is what the validator gave.        *)
pushError(errors, e) ==
  IF e.st = "throw" THEN e
  ELSE IF e.v = Undefined THEN Ret(errors, e.m)
  ELSE Ret(Append(errors, e.v), e.m)

(* runOne(dontTry, validators, i, errors): v is errors afterwards.         *)
runOne(key, value, handle, dontTry, validators, i, errors, m) ==
  IF i + 1 \notin 1..Len(validators) THEN Ret(errors, m)
  ELSE pushError(errors,
         validateOne(key, value, handle, validators[i + 1], i, dontTry, m))

(* for (let i = start; i <= end; i ++) { runOne(...) }: o is what the      *)
(* runOne of index i gave.                                                 *)
RECURSIVE validateLoop(_, _, _, _, _, _, _, _, _)
validateNext(key, value, handle, dontTry, validators, i, end, o) ==
  IF o.st = "throw" THEN o
  ELSE validateLoop(key, value, handle, dontTry, validators, i + 1, end,
                    o.v, o.m)

validateLoop(key, value, handle, dontTry, validators, i, end, errors, m) ==
  IF i > end THEN Ret(errors, m)
  ELSE validateNext(key, value, handle, dontTry, validators, i, end,
         runOne(key, value, handle, dontTry, validators, i, errors, m))

(* validateByRange(dontTry, validators, [start = 0, end = length - 1])     *)
validateByRange(key, value, handle, dontTry, validators, range, m) ==
  LET start == IF Len(range) >= 1 THEN range[1] ELSE 0
      end == IF Len(range) >= 2 THEN range[2] ELSE Len(validators) - 1
  IN validateLoop(key, value, handle, dontTry, validators, start, end, <<>>, m)

(* indexes.forEach((i) => { runOne(...) }): o is what the runOne of the    *)
(* first index gave.                                                       *)
RECURSIVE validateByIndexes(_, _, _, _, _, _, _, _)
validateByIndexesNext(key, value, handle, dontTry, validators, indexes, o) ==
  IF o.st = "throw" THEN o
  ELSE validateByIndexes(key, value, handle, dontTry, validators,
                         Tail(indexes), o.v, o.m)

validateByIndexes(key, value, handle, dontTry, validators, indexes, errors, m) ==
  IF indexes = <<>> THEN Ret(errors, m)
  ELSE validateByIndexesNext(key, value, handle, dontTry, validators, indexes,
         runOne(key, value, handle, dontTry, validators, Head(indexes),
                errors, m))

(* The selector's arguments: nothing, a [start, end] array (r), numbers    *)
(* (r), or an array of validator objects (vs).                             *)
Sel(k, r, vs) == [k |-> k, r |-> r, vs |-> vs]

(* $validate(key, value, context)(...args)                                 *)
dvalidate(key, value, sel, m) ==
  IF ~ dhas(key) THEN Throw(Err("TypeError"), m)
  ELSE
    LET def == schema[key]
        d == disabled(key, m)
    IN IF d.st = "throw" THEN d
       ELSE IF Truthy(d.v) THEN Ret(<<>>, d.m)
       ELSE IF sel.k = "custom"
         THEN validateByRange(key, value, def.catch, TRUE, sel.vs, <<>>, d.m)
       ELSE IF sel.k = "range"
         THEN validateByRange(key, value, def.catch, FALSE, def.validators, sel.r, d.m)
       ELSE IF sel.k = "indexes"
         THEN validateByIndexes(key, value, def.catch, FALSE, def.validators,
                                sel.r, <<>>, d.m)
       ELSE Ret(<<>>, d.m)

(* validate, read from its end to its start.                               *)

(* Lines 590-593: errors.push(...errs); return errors.                     *)
validateConcat(errors, errs) ==
  IF errs.st = "throw" THEN errs ELSE Ret(errors \o errs.v, errs.m)

(* Lines 578-590: error is what the type check gave and msg the message of *)
(* a type error; then the validators run.                                  *)
validateValidators(key, value, error, msg) ==
  IF msg.st = "throw" THEN msg
  ELSE validateConcat(
         IF error = Null THEN <<>>
         ELSE <<ValErr(key, value, "type", -1, error, msg.v)>>,
         dvalidate(key, value, Sel("range", <<>>, <<>>), msg.m))

(* Lines 571-587: t is what the type check gave.                           *)
validateType(key, value, t) ==
  validateValidators(key, value, t.v,
    IF t.v = Null THEN Ret(Undefined, t.m) ELSE typeMessage(key, t.m))

(* Lines 559-567: the required error, msg being its message.               *)
validateRequiredError(key, value, msg) ==
  IF msg.st = "throw" THEN msg
  ELSE Ret(<<ValErr(key, value, "required", -1, Undefined, msg.v)>>, msg.m)

(* validate reporting a required field whether or not its value is empty. *)
validateRequired_ignoresEmpty(key, value, r) ==
  IF r.st = "throw" THEN r
  ELSE IF Truthy(r.v)
    THEN validateRequiredError(key, value, dmessage(key, "required", r.v, r.m))
  ELSE validateType(key, value,
         IF schema[key].type = "none" THEN Ret(Null, r.m)
         ELSE TypeCheck(schema[key], key, value, r.m))

(* Lines 557-576: r is what required gave.                                 *)
validateRequired(key, value, r) ==
  IF r.st = "throw" THEN r
  ELSE IF Truthy(r.v) /\ isEmpty(value)
    THEN validateRequiredError(key, value, dmessage(key, "required", r.v, r.m))
  ELSE validateType(key, value,
         IF schema[key].type = "none" THEN Ret(Null, r.m)
         ELSE TypeCheck(schema[key], key, value, r.m))

(* Lines 553-557: d is what disabled gave.                                 *)
validateEnabled(key, value, d) ==
  IF d.st = "throw" THEN d
  ELSE IF Truthy(d.v) THEN Ret(<<>>, d.m)
  ELSE validateRequired(key, value, required(key, d.m))

(* validate(key, value, context)                                           *)
validate(key, value, m) ==
  IF ~ dhas(key)
  THEN Ret(<<ValErr(key, value, "none", -1, Undefined,
                    Str(key \o " is not existing in schema."))>>, m)
  ELSE validateEnabled(key, value, disabled(key, m))

(* A record of data: a function from its keys to values.  data[key] of a  *)
(* missing key is undefined.                                               *)
EmptyObj == [x \in {} |-> Undefined]

Prop(data, key) == IF key \in DOMAIN data THEN data[key] ELSE Undefined

(* Object.assign(target, source): the source's keys win.  A source that is *)
(* a boolean, a number or undefined has no own keys.                       *)
Assign(target, source) ==
  IF "t" \in DOMAIN source THEN target ELSE source @@ target

(* The fields in the order each(this, ...) and map(this, ...) visit them.  *)
FieldOrder == <<"a", "b">>

SchemaKeys == SelectSeq(FieldOrder, LAMBDA k : k \in DOMAIN schema)

(* $default returning undefined whatever the default meta is.             *)
ddefault_ignoresDefault(key, m) == Ret(Undefined, m)

(* $default handing out the default object itself, without copying it.    *)
ddefaultValue_sharesDefault(defaultValue, m) == Ret(defaultValue, m)

(* $default, lines 114-119: an object or an array is cloned, any other     *)
(* value is returned as it is.                                             *)
ddefaultValue(defaultValue, m) ==
  IF isPlainObject(defaultValue) \/ isArray(defaultValue)
  THEN cloned(clone(defaultValue, m.heap), m)
  ELSE Ret(defaultValue, m)

(* $default(key)                                                           *)
ddefault(key, m) ==
  LET f == schema[key].default
  IN IF isFunction(f)
     THEN LET r == Apply(f, Undefined)
              m1 == Call(m, "default", key, Undefined)
          IN IF r.thrown THEN Throw(r.v, m1) ELSE Ret(r.v, m1)
     ELSE ddefaultValue(MetaValue(f), m)

(* parse, lines 606-617: the value that comes from create, or data[key].   *)
parseCreate(data, key, m) ==
  IF isFunction(schema[key].create)
  THEN _trydo(Apply(schema[key].create, Prop(data, key)), key, "create",
              schema[key].catch, Prop(data, key), FALSE,
              Call(m, "create", key, Prop(data, key)))
  ELSE Ret(Prop(data, key), m)

(* parse using the default for null as well as for undefined.              *)
parseDefault_alsoForNull(key, c) ==
  IF c.st = "ret" /\ c.v.t \in {"undefined", "null"} THEN ddefault(key, c.m) ELSE c

(* parse, lines 619-621: c is what came; undefined is replaced by the      *)
(* default.                                                                *)
parseDefault(key, c) ==
  IF c.st = "ret" /\ isUndefined(c.v) THEN ddefault(key, c.m) ELSE c

(* parse, lines 632-639: the type error handed to onError, msg being its   *)
(* message.                                                                *)
parseTypeError(key, coming, error, msg) ==
  IF msg.st = "throw" THEN msg
  ELSE Ret(coming, onError(FlagErr(key, "parse", "type", coming, Undefined,
                                   Undefined, error, msg.v), msg.m))

(* parse, lines 624-640: t is what the type check of coming gave.          *)
parseChecked(key, coming, t) ==
  IF t.v = Null THEN Ret(coming, t.m)
  ELSE parseTypeError(key, coming, t.v, typeMessage(key, t.m))

(* parse, lines 623-642: dv is the value coming after the default.         *)
parseType(key, dv) ==
  IF dv.st = "throw" \/ schema[key].type = "none" THEN dv
  ELSE parseChecked(key, dv.v, TypeCheck(schema[key], key, dv.v, dv.m))

(* The callback of map(this, ...) in parse, for one field.                 *)
parseField(data, key, m) ==
  parseType(key, parseDefault(key, parseCreate(data, key, m)))

(* map(this, ...): o is what the callback gave for the first of keys.      *)
RECURSIVE parseLoop(_, _, _, _)
parseNext(data, keys, output, o) ==
  IF o.st = "throw" THEN o
  ELSE parseLoop(data, Tail(keys), (Head(keys) :> o.v) @@ output, o.m)

parseLoop(data, keys, output, m) ==
  IF keys = <<>> THEN Ret(output, m)
  ELSE parseNext(data, keys, output, parseField(data, Head(keys), m))

(* parse(data, context)                                                    *)
parse(data, m) == parseLoop(data, SchemaKeys, EmptyObj, m)

(* The flat meta: absent, or a function that throws, returns a falsy       *)
(* value, or returns the object p.                                         *)
Flat(k, p) == [k |-> k, p |-> p]

ApplyFlat(flat) ==
  CASE flat.k = "throw" -> [thrown |-> TRUE, v |-> Err("boom")]
    [] flat.k = "patch" -> [thrown |-> FALSE, v |-> flat.p]
    [] OTHER -> [thrown |-> FALSE, v |-> EmptyObj]

(* exportField without the disabled check.                                 *)
exportField_keepsDisabled(data, key, acc, m) ==
  LET def == schema[key]
      value == Prop(data, key)
      f == IF def.flat.k # "absent"
           THEN _trydo(ApplyFlat(def.flat), key, "flat", def.catch, EmptyObj,
                       FALSE, Call(m, "flat", key, value))
           ELSE Ret(EmptyObj, m)
      acc1 == [acc EXCEPT !.patch = Assign(@, f.v)]
      dr == IF isFunction(def.drop)
            THEN _trydo(Apply(def.drop, value), key, "drop", def.catch, False,
                        FALSE, Call(f.m, "drop", key, value))
            ELSE Ret(False, f.m)
      mp == IF isFunction(def.map)
            THEN _trydo(Apply(def.map, value), key, "map", def.catch, value,
                        FALSE, Call(dr.m, "map", key, value))
            ELSE Ret(value, dr.m)
  IN IF def.drop = Val(True) THEN Ret(acc1, f.m)
     ELSE IF Truthy(dr.v) THEN Ret(acc1, dr.m)
     ELSE Ret([acc1 EXCEPT !.output = (key :> mp.v) @@ @], mp.m)

(* The callback of each(this, ...) in export, for one field: acc holds     *)
(* patch and output; the outcome's v is acc afterwards.                    *)
exportField(data, key, acc, m) ==
  LET def == schema[key]
      value == Prop(data, key)
      f == IF def.flat.k # "absent"
           THEN _trydo(ApplyFlat(def.flat), key, "flat", def.catch, EmptyObj,
                       FALSE, Call(m, "flat", key, value))
           ELSE Ret(EmptyObj, m)
      acc1 == [acc EXCEPT !.patch = Assign(@, f.v)]
      d == disabled(key, f.m)
      dr == IF isFunction(def.drop)
            THEN _trydo(Apply(def.drop, value), key, "drop", def.catch, False,
                        FALSE, Call(d.m, "drop", key, value))
            ELSE Ret(False, d.m)
      mp == IF isFunction(def.map)
            THEN _trydo(Apply(def.map, value), key, "map", def.catch, value,
                        FALSE, Call(dr.m, "map", key, value))
            ELSE Ret(value, dr.m)
  IN IF f.st = "throw" THEN f
     ELSE IF d.st = "throw" THEN d
     ELSE IF Truthy(d.v) THEN Ret(acc1, d.m)
     ELSE IF def.drop = Val(True) THEN Ret(acc1, d.m)
     ELSE IF dr.st = "throw" THEN dr
     ELSE IF Truthy(dr.v) THEN Ret(acc1, dr.m)
     ELSE IF mp.st = "throw" THEN mp
     ELSE Ret([acc1 EXCEPT !.output = (key :> mp.v) @@ @], mp.m)

(* each(this, ...): o is what the callback gave for the first of keys.     *)
RECURSIVE exportLoop(_, _, _, _)
exportNext(data, keys, o) ==
  IF o.st = "throw" THEN o
  ELSE exportLoop(data, Tail(keys), o.v, o.m)

(* export merging the output over the patch: the field's own value wins.   *)
exportLoop_baseWins(data, keys, acc, m) ==
  IF keys = <<>> THEN Ret(Assign(acc.patch, acc.output), m)
  ELSE exportNext(data, keys, exportField(data, Head(keys), acc, m))

exportLoop(data, keys, acc, m) ==
  IF keys = <<>> THEN Ret(Assign(acc.output, acc.patch), m)
  ELSE exportNext(data, keys, exportField(data, Head(keys), acc, m))

(* export(data, context)                                                   *)
export(data, m) ==
  exportLoop(data, SchemaKeys, [patch |-> EmptyObj, output |-> EmptyObj], m)

(* export(parse(data)): p is what parse gave.                              *)
exportParsed(p) == IF p.st = "throw" THEN p ELSE export(p.v, p.m)

roundTrip(data, m) == exportParsed(parse(data, m))

(* --------------------------- operations ------------------------------- *)

Keys == {"a", "z"}

Values == {Undefined, Null, Str(""), Str("x"), Num("12"), Obj("message")}

PrevValues == {Str("old"), Null}

Datas ==
  {EmptyObj} \cup {[k \in {"a"} |-> v] : v \in {Str("x"), Num("12")}}
  \cup {[k \in {"a", "b", "q"} |-> v] : v \in {Str("x"), Null}}

Op(name, key, value, prev, data) ==
  [name |-> name, key |-> key, value |-> value, prev |-> prev, data |-> data]

Idle == Op("new", "", Undefined, Undefined, EmptyObj)

idle == op.name = "new"

Get ==
  \E key \in Keys, value \in Values :
    /\ idle
    /\ op' = Op("get", key, value, Undefined, EmptyObj)
    /\ result' = get(key, value, M0)
    /\ UNCHANGED <<schema, onErrorRet, store, heap, ty, prototypes, others>>

DSet ==
  \E key \in Keys, value \in Values :
    /\ idle
    /\ op' = Op("$set", key, value, Undefined, EmptyObj)
    /\ result' = dset(key, value, M0)
    /\ UNCHANGED <<schema, onErrorRet, store, heap, ty, prototypes, others>>

Set ==
  \E key \in Keys, next \in Values, prev \in PrevValues :
    /\ idle
    /\ op' = Op("set", key, next, prev, EmptyObj)
    /\ result' = set(key, next, prev, M0)
    /\ UNCHANGED <<schema, onErrorRet, store, heap, ty, prototypes, others>>

Validate ==
  \E key \in Keys, value \in Values :
    /\ idle
    /\ op' = Op("validate", key, value, Undefined, EmptyObj)
    /\ result' = validate(key, value, M0)
    /\ UNCHANGED <<schema, onErrorRet, store, heap, ty, prototypes, others>>

Parse ==
  \E data \in Datas :
    /\ idle
    /\ op' = Op("parse", "", Undefined, Undefined, data)
    /\ result' = parse(data, M0)
    /\ heap' = result'.m.heap
    /\ UNCHANGED <<schema, onErrorRet, store, ty, prototypes, others>>

Export ==
  \E data \in Datas :
    /\ idle
    /\ op' = Op("export", "", Undefined, Undefined, data)
    /\ result' = export(data, M0)
    /\ UNCHANGED <<schema, onErrorRet, store, heap, ty, prototypes, others>>

Required ==
  \E key \in Keys :
    /\ idle
    /\ op' = Op("required", key, Undefined, Undefined, EmptyObj)
    /\ result' = required(key, M0)
    /\ UNCHANGED <<schema, onErrorRet, store, heap, ty, prototypes, others>>

Disabled ==
  \E key \in Keys :
    /\ idle
    /\ op' = Op("disabled", key, Undefined, Undefined, EmptyObj)
    /\ result' = disabled(key, M0)
    /\ UNCHANGED <<schema, onErrorRet, store, heap, ty, prototypes, others>>

Readonly ==
  \E key \in Keys :
    /\ idle
    /\ op' = Op("readonly", key, Undefined, Undefined, EmptyObj)
    /\ result' = readonly(key, M0)
    /\ UNCHANGED <<schema, onErrorRet, store, heap, ty, prototypes, others>>

(* a call of $default(key); the calls of a row keep what the earlier ones   *)
(* returned, in order.                                                     *)
Default ==
  \E key \in DOMAIN schema :
    /\ idle \/ op.name = "$default"
    /\ heap < MaxHeap
    /\ idle \/ Len(op.data) < MaxCalls
    /\ op' = Op("$default", key, Undefined, Undefined,
               IF idle THEN <<>> ELSE Append(op.data, result.v))
    /\ result' = ddefault(key, M0)
    /\ heap' = result'.m.heap
    /\ UNCHANGED <<schema, onErrorRet, store, ty, prototypes, others>>

RoundTrip ==
  \E data \in Datas :
    /\ idle
    /\ op' = Op("roundtrip", "", Undefined, Undefined, data)
    /\ result' = roundTrip(data, M0)
    /\ heap' = result'.m.heap
    /\ UNCHANGED <<schema, onErrorRet, store, ty, prototypes, others>>

(* The record a round trip gave goes through parse and export again.       *)
RoundTripAgain ==
    /\ op.name = "roundtrip"
    /\ result.st = "ret"
    /\ op' = Op("roundtrip again", "", Undefined, Undefined, result.v)
    /\ result' = roundTrip(result.v, M0)
    /\ heap' = result'.m.heap
    /\ UNCHANGED <<schema, onErrorRet, store, ty, prototypes, others>>

(* The schema keeps nothing between calls: the next call starts afresh.    *)
Done ==
  /\ ~ idle
  /\ op' = Idle
  /\ result' = Ret(Undefined, M0)
  /\ UNCHANGED <<schema, onErrorRet, store, heap, ty, prototypes, others>>

(* ----------------------------- Ty calls ------------------------------- *)

TyPatterns == {"String", "Number", "ifexist(String)", "{message:String}"}

TyValues == {Undefined, Null, Str("x"), Num("12"), Num("NaN"), Obj("message")}

Listeners == {"f", "g"}

(* The microtask queue holds at most MaxQueue callbacks.                   *)
MaxQueue == 3

(* At most MaxListeners listeners are bound to a Ty.                       *)
MaxListeners == 2

(* ty.silent(value), lines 33-35                                           *)
Silent ==
  \E value \in {Undefined, True, False, Str("x"), Num("0")} :
    /\ idle
    /\ ~ ty.facade
    /\ op' = Op("silent", "", value, Undefined, EmptyObj)
    /\ result' = Ret(Undefined, M0)
    /\ ty' = [ty EXCEPT !._silent = Truthy(value)]
    /\ UNCHANGED <<schema, onErrorRet, store, heap, prototypes, others>>

(* ty.bind(fn), lines 12-17                                                *)
Bind ==
  \E fn \in Listeners :
    /\ idle
    /\ ~ ty.facade
    /\ Len(ty._listeners) < MaxListeners
    /\ op' = Op("bind", fn, Undefined, Undefined, EmptyObj)
    /\ result' = Ret(Undefined, M0)
    /\ ty' = [ty EXCEPT !._listeners = Append(@, fn)]
    /\ UNCHANGED <<schema, onErrorRet, store, heap, prototypes, others>>

(* ty.expect(value).to.match(type)                                         *)
Expect ==
  \E value \in TyValues, type \in TyPatterns :
    /\ idle
    /\ op' = Op("expect", type, value, Undefined, EmptyObj)
    /\ result' = expectMatch(value, type, M0)
    /\ microtasks' = microtasks \o queued(result'.m)
    /\ Len(microtasks') <= MaxQueue
    /\ UNCHANGED <<schema, onErrorRet, store, heap, ty, prototypes, rule, trace>>

(* ty.catch(value).by(type)                                                *)
Catch ==
  \E value \in TyValues, type \in TyPatterns :
    /\ idle
    /\ op' = Op("catch", type, value, Undefined, EmptyObj)
    /\ result' = catchBy(value, type, M0)
    /\ microtasks' = microtasks \o queued(result'.m)
    /\ Len(microtasks') <= MaxQueue
    /\ UNCHANGED <<schema, onErrorRet, store, heap, ty, prototypes, rule, trace>>

(* ty.is(type).typeof(value)                                               *)
Is ==
  \E value \in TyValues, type \in TyPatterns :
    /\ idle
    /\ op' = Op("is", type, value, Undefined, EmptyObj)
    /\ result' = isTypeof(type, value, M0)
    /\ microtasks' = microtasks \o queued(result'.m)
    /\ Len(microtasks') <= MaxQueue
    /\ UNCHANGED <<schema, onErrorRet, store, heap, ty, prototypes, rule, trace>>

(* ty.unbind(fn), lines 18-25                                              *)
Unbind ==
  \E fn \in Listeners :
    /\ idle
    /\ ~ ty.facade
    /\ op' = Op("unbind", fn, Undefined, Undefined, EmptyObj)
    /\ result' = Ret(Undefined, M0)
    /\ ty' = [ty EXCEPT !._listeners = unbind(fn)]
    /\ UNCHANGED <<schema, onErrorRet, store, heap, prototypes, others>>

(* The running code has returned: the first callback of the queue calls    *)
(* its listener with its error, line 28.                                   *)
Deliver ==
  /\ idle
  /\ microtasks # <<>>
  /\ Head(microtasks).kind = "listener"
  /\ op' = Op("listener", Head(microtasks).fn, Head(microtasks).arg,
             Undefined, EmptyObj)
  /\ result' = Ret(Undefined, M0)
  /\ microtasks' = Tail(microtasks)
  /\ UNCHANGED <<schema, onErrorRet, store, heap, ty, prototypes, rule, trace>>

(* ---------------------------- Tuple calls ----------------------------- *)

(* A tuple's pattern has at most MaxPatterns patterns, an array at most    *)
(* MaxItems items.                                                         *)
MaxPatterns == 2

MaxItems == 3

SeqsUpTo(S, n) == UNION {[1..k -> S] : k \in 0..n}

TuplePatterns == SeqsUpTo({"Number", "String", "ifexist(String)"}, MaxPatterns)

TupleValues ==
  {Str("x"), Null, Obj("message")}
  \cup {ArrayOf(items) :
          items \in SeqsUpTo({Num("12"), Str("x"), Undefined}, MaxItems)}

(* new Tuple(pattern), strict or loose, then assert(value)                 *)
TupleAssert ==
  \E pattern \in TuplePatterns, mode \in {"strict", "loose"},
     value \in TupleValues :
    /\ idle
    /\ op' = Op("assert", mode, value, Undefined, pattern)
    /\ result' = tupleAssert(pattern, mode, value, M0)
    /\ UNCHANGED <<schema, onErrorRet, store, heap, ty, prototypes, others>>

(* -------------------------- Prototype calls --------------------------- *)

Tokens ==
  {NumberCtor, StringToken, DateCtor, CustomCtor, NaNToken, RegExpToken,
   AnyProto, ArrowToken, TextToken, InfinityToken}

ProtoValues ==
  {Undefined, Num("12"), Num("NaN"), Str("x"), Str("y"), Inst("Date"),
   Inst("Custom"), Inst("Sub")}

(* The registry holds at most MaxRegistered items.                         *)
MaxRegistered == 3

Register ==
  \E proto \in {NumberCtor, CustomCtor, NaNToken, AnyProto, InfinityToken},
     predicate \in {"isString", "always"} :
    /\ idle
    /\ Len(register(proto, predicate)) <= MaxRegistered
    /\ op' = Op("register", predicate, Undefined, Undefined, proto)
    /\ result' = Ret(Undefined, M0)
    /\ prototypes' = register(proto, predicate)
    /\ UNCHANGED <<schema, onErrorRet, store, heap, ty, others>>

(* Prototype.unregister(proto), lines 80-93.  `arguments` of line 81 is no *)
(* binding of the arrow function: where the module is evaluated as a       *)
(* module it is a ReferenceError, where it is wrapped in a function it is  *)
(* that function's arguments and the test is false.                        *)
Unregister ==
  \E proto \in {NumberCtor, StringToken, CustomCtor, NaNToken, InfinityToken},
     wrapped \in BOOLEAN :
    /\ idle
    /\ op' = Op("unregister", "", Undefined, Undefined, proto)
    /\ result' = IF wrapped THEN Ret(Undefined, M0)
                  ELSE Throw(Err("ReferenceError"), M0)
    /\ prototypes' = IF wrapped THEN unregister(proto) ELSE prototypes
    /\ UNCHANGED <<schema, onErrorRet, store, heap, ty, others>>

Typeof ==
  \E proto \in Tokens, value \in ProtoValues :
    /\ idle
    /\ op' = Op("typeof", "", value, Undefined, proto)
    /\ result' = protoTypeof(proto, value, M0)
    /\ UNCHANGED <<schema, onErrorRet, store, heap, ty, prototypes, others>>

(* ---------------------------- asynch calls ---------------------------- *)

(* What fn may do: return a pattern (here by its name), return a promise   *)
(* of one, or throw.                                                       *)
AsynchFns ==
  {Const(Str("String")), Const(Str("Number")), F("promise", Undefined),
   Throws}

(* asynch(fn), lines 186-201: the rule is made and () => fn() is queued.   *)
Asynch ==
  \E fn \in AsynchFns :
    /\ idle
    /\ ~ rule.made
    /\ op' = Op("asynch", "", Undefined, Undefined, EmptyObj)
    /\ result' = Ret(Undefined, M0)
    /\ rule' = asynchRule(fn)
    /\ microtasks' = Append(microtasks, Task("call fn", "", Undefined))
    /\ UNCHANGED <<schema, onErrorRet, store, heap, ty, prototypes, trace>>

(* The running code has returned: the first callback of the queue runs.    *)
(* The call of fn queues the callback of its result when the result is     *)
(* there already.                                                          *)
RunFn ==
  /\ idle
  /\ microtasks # <<>>
  /\ Head(microtasks).kind = "call fn"
  /\ op' = Op("call fn", "", Undefined, Undefined, EmptyObj)
  /\ result' = Ret(Undefined, M0)
  /\ rule' = asynchCall(rule)
  /\ microtasks' =
       IF rule'.settled = "fulfilled"
       THEN Append(Tail(microtasks), Task("switch", "", Str(rule'.res)))
       ELSE Tail(microtasks)
  /\ UNCHANGED <<schema, onErrorRet, store, heap, ty, prototypes, trace>>

(* The promise fn returned is fulfilled or rejected by whoever made it.    *)
Settle ==
  \E res \in {"String", "Number", "rejected"} :
    /\ idle
    /\ rule.made /\ rule.fn.k = "promise"
    /\ rule.calls > 0 /\ rule.settled = "no"
    /\ op' = Op("settle", res, Undefined, Undefined, EmptyObj)
    /\ result' = Ret(Undefined, M0)
    /\ rule' = IF res = "rejected"
               THEN [rule EXCEPT !.settled = "rejected"]
               ELSE [rule EXCEPT !.settled = "fulfilled", !.res = res]
    /\ microtasks' =
         IF res = "rejected" THEN microtasks
         ELSE Append(microtasks, Task("switch", "", Str(res)))
    /\ UNCHANGED <<schema, onErrorRet, store, heap, ty, prototypes, trace>>

RunSwitch ==
  /\ idle
  /\ microtasks # <<>>
  /\ Head(microtasks).kind = "switch"
  /\ op' = Op("switch", "", Undefined, Undefined, EmptyObj)
  /\ result' = Ret(Undefined, M0)
  /\ rule' = asynchSwitch(rule, Head(microtasks).arg.s)
  /\ microtasks' = Tail(microtasks)
  /\ UNCHANGED <<schema, onErrorRet, store, heap, ty, prototypes, trace>>

(* Promise.resolve().then(() => a check of value by the rule), by the code *)
(* that uses the rule.                                                     *)
QueueCheck ==
  \E value \in {Str("x"), Num("12")} :
    /\ idle
    /\ rule.made
    /\ Len(microtasks) < MaxQueue
    /\ op' = Op("then", "", value, Undefined, EmptyObj)
    /\ result' = Ret(Undefined, M0)
    /\ microtasks' = Append(microtasks, Task("check", "", value))
    /\ UNCHANGED <<schema, onErrorRet, store, heap, ty, prototypes, rule, trace>>

RunCheck ==
  /\ idle
  /\ microtasks # <<>>
  /\ Head(microtasks).kind = "check"
  /\ op' = Op("check", "", Head(microtasks).arg, Undefined, EmptyObj)
  /\ result' = Ret(ruleCatch(rule, Head(microtasks).arg), M0)
  /\ microtasks' = Tail(microtasks)
  /\ UNCHANGED <<schema, onErrorRet, store, heap, ty, prototypes, rule, trace>>

(* A value is checked by the rule, by code that runs between two callbacks *)
(* of the queue or as one of them.                                         *)
RuleCheck ==
  \E value \in {Str("x"), Num("12"), Undefined} :
    /\ idle
    /\ rule.made
    /\ op' = Op("check", "", value, Undefined, EmptyObj)
    /\ result' = Ret(ruleCatch(rule, value), M0)
    /\ UNCHANGED <<schema, onErrorRet, store, heap, ty, prototypes, others>>

(* -------------------------- TraceModel calls -------------------------- *)

TraceKeys == {"name", "age"}

TraceValues == {Str(""), Str("x")}

Tags == {"e", "f"}

(* Every call of a TraceModel: op keeps the call, whether the history had *)
(* an item before it, and the data before it.                              *)

(* a write: model[key] = value                                             *)
TraceSet ==
  \E key \in TraceKeys, value \in TraceValues :
    /\ trace.made
    /\ op' = Op("trace.set", key, value, Bool(trace.history # <<>>),
               trace.data)
    /\ result' = Ret(Undefined, M0)
    /\ trace' = traceSet(trace, key, value)
    /\ UNCHANGED <<schema, onErrorRet, store, heap, ty, prototypes, rule,
                   microtasks>>

(* commit(tag)                                                             *)
TraceCommit ==
  \E tag \in Tags :
    /\ trace.made
    /\ op' = Op("commit", tag, Undefined, Bool(trace.history # <<>>),
               trace.data)
    /\ result' = Ret(Undefined, M0)
    /\ trace' = traceCommit(trace, tag)
    /\ UNCHANGED <<schema, onErrorRet, store, heap, ty, prototypes, rule,
                   microtasks>>

(* reset(tag)                                                              *)
TraceReset ==
  \E tag \in Tags :
    /\ trace.made
    /\ op' = Op("reset", tag, Undefined, Bool(trace.history # <<>>),
               trace.data)
    /\ result' = Ret(Undefined, M0)
    /\ trace' = traceReset(trace, tag)
    /\ UNCHANGED <<schema, onErrorRet, store, heap, ty, prototypes, rule,
                   microtasks>>

(* undo()                                                                  *)
TraceUndo ==
  /\ trace.made
  /\ op' = Op("undo", "", Undefined, Bool(trace.history # <<>>),
             trace.data)
  /\ result' = Ret(Undefined, M0)
  /\ trace' = traceUndo(trace)
  /\ UNCHANGED <<schema, onErrorRet, store, heap, ty, prototypes, rule,
                 microtasks>>

(* redo()                                                                  *)
TraceRedo ==
  /\ trace.made
  /\ op' = Op("redo", "", Undefined, Bool(trace.history # <<>>),
             trace.data)
  /\ result' = Ret(Undefined, M0)
  /\ trace' = traceRedo(trace)
  /\ UNCHANGED <<schema, onErrorRet, store, heap, ty, prototypes, rule,
                 microtasks>>

(* clear()                                                                 *)
TraceClear ==
  /\ trace.made
  /\ op' = Op("clear", "", Undefined, Bool(trace.history # <<>>),
             trace.data)
  /\ result' = Ret(Undefined, M0)
  /\ trace' = traceClear(trace)
  /\ UNCHANGED <<schema, onErrorRet, store, heap, ty, prototypes, rule,
                 microtasks>>

(* ------------------------------ model --------------------------------- *)

(* The Model that owns the schema: its store is seeded with                *)
(* schema.parse(input, this) once, a write stores what schema.set returns, a     *)
(* read of the state is schema.get of the stored value.  The op of a read   *)
(* keeps the store as it was before the read.                              *)
ModelInputs ==
  {EmptyObj} \cup {[k \in {"a"} |-> v] : v \in {Str("14"), Str("x"), Num("12"), Null}}

constructed == DOMAIN store = DOMAIN schema

ModelNew ==
  \E input \in ModelInputs :
    /\ idle
    /\ ~ constructed
    /\ op' = Op("construct", "", Undefined, Undefined, input)
    /\ result' = parse(input, M0)
    /\ store' = IF result'.st = "ret" THEN result'.v ELSE store
    /\ heap' = result'.m.heap
    /\ UNCHANGED <<schema, onErrorRet, ty, prototypes, others>>

ModelSet ==
  \E key \in DOMAIN schema, next \in Values \cup {Str("12")} :
    /\ idle
    /\ constructed
    /\ op' = Op("model.set", key, next, Prop(store, key), store)
    /\ result' = set(key, next, Prop(store, key), M0)
    /\ store' = IF result'.st = "ret" THEN (key :> result'.v) @@ store ELSE store
    /\ UNCHANGED <<schema, onErrorRet, heap, ty, prototypes, others>>

ModelGet ==
  \E key \in DOMAIN schema :
    /\ idle
    /\ constructed
    /\ op' = Op("model.get", key, Prop(store, key), Undefined, store)
    /\ result' = get(key, Prop(store, key), M0)
    /\ UNCHANGED <<schema, onErrorRet, store, heap, ty, prototypes, others>>

ModelValidate ==
  \E key \in DOMAIN schema :
    /\ idle
    /\ constructed
    /\ op' = Op("model.validate", key, Prop(store, key), Undefined, store)
    /\ result' = validate(key, Prop(store, key), M0)
    /\ UNCHANGED <<schema, onErrorRet, store, heap, ty, prototypes, others>>

(* --------------------------- schemas ---------------------------------- *)

OnErrorRets == {Undefined, Obj("substitute")}

Catches == {Absent, Const(Undefined), Const(True), Const(Num("12"))}

(* The forms of required / readonly / disabled.                            *)
NodeForms ==
  {NAbsent, NVal(True), NVal(False), NVal(Str("by string")),
   NFn(Const(True)), NFn(Const(False)), NFn(Throws),
   NObj(Val(True), Absent), NObj(Const(True), Val(Str("by message"))),
   NObj(Const(True), Const(Str("by function"))), NObj(Const(True), Throws),
   NObj(Const(False), Absent), NObj(Throws, Val(Str("by message")))}

One(def) == [k \in {"a"} |-> def]

(* Schemas for the write path: the refusals of set, and $set.             *)
SetSchemas ==
  {One([NoDef EXCEPT !.disabled = d, !.readonly = r, !.setter = s, !.catch = c]) :
     d \in NodeForms, r \in NodeForms, s \in {Absent, Throws}, c \in {Absent, Const(True)}}
  \cup
  {One([NoDef EXCEPT !.setter = s, !.type = t, !.message = msg, !.compute = cp,
                     !.catch = c, !.readonly = r]) :
     s \in {Absent, Id, Const(Num("12")), Throws},
     t \in {"none", "String", "Number", "ifexist(String)", "{message:String}"},
     msg \in {Absent, Val(Str("it should be a string")), Val(Str(""))},
     cp \in {Absent, Const(Str("computed")), Throws},
     c \in Catches, r \in {NAbsent, NVal(False)}}

InitSet ==
  /\ schema \in SetSchemas
  /\ onErrorRet \in OnErrorRets
  /\ op = Idle
  /\ store = EmptyObj
  /\ heap = FirstFree
  /\ prototypes = Registered
  /\ rule = NoRule
  /\ microtasks = <<>>
  /\ trace = NoTrace
  /\ ty = Facade
  /\ result = Ret(Undefined, M0)

NextSet == Get \/ DSet \/ Set \/ Done

SpecSet == InitSet /\ [][NextSet]_vars

(* Schemas for validation: validators, required, disabled, type.         *)
Validator(determine, fn, message) ==
  [determine |-> determine, validate |-> fn, message |-> message]

ValidatorSet ==
  {Validator(Absent, Const(True), Val(Str("never shown"))),
   Validator(Absent, Const(False), Val(Str("too long"))),
   Validator(Absent, Const(Err("bad")), Absent),
   Validator(Absent, Const(Arr("e0,e1")), Absent),
   Validator(Absent, Throws, Val(Str("throwing"))),
   Validator(Const(False), Const(False), Val(Str("not run"))),
   Validator(Throws, Const(False), Val(Str("determine throws"))),
   Validator(Const(True), Const(False), Const(Str("by function"))),
   Validator(Absent, Const(False), Throws)}

MaxValidators == 2

ValidatorSeqs == UNION {[1..n -> ValidatorSet] : n \in 0..MaxValidators}

ValidateSchemas ==
  {One([NoDef EXCEPT !.validators = vs, !.disabled = d, !.required = r,
                     !.type = t, !.catch = c]) :
     vs \in ValidatorSeqs,
     d \in {NAbsent, NVal(True), NFn(Throws)},
     r \in {NAbsent, NVal(True), NObj(Const(True), Const(Str("by function")))},
     t \in {"none", "String"},
     c \in {Absent, Const(True)}}

InitValidate ==
  /\ schema \in ValidateSchemas
  /\ onErrorRet \in OnErrorRets
  /\ op = Idle
  /\ store = EmptyObj
  /\ heap = FirstFree
  /\ prototypes = Registered
  /\ rule = NoRule
  /\ microtasks = <<>>
  /\ trace = NoTrace
  /\ ty = Facade
  /\ result = Ret(Undefined, M0)

NextValidate == Validate \/ Done

SpecValidate == InitValidate /\ [][NextValidate]_vars

(* Schemas for export and parse: field a with every export meta, and an   *)
(* optional second field b whose flat may produce a's key.                 *)
Patch(keys, v) == [k \in keys |-> Str(v)]

ExportDefsA ==
  {[NoDef EXCEPT !.disabled = d, !.drop = dr, !.map = mp, !.flat = fl, !.catch = c] :
     d \in {NAbsent, NVal(True), NFn(Const(True)), NObj(Const(False), Absent)},
     dr \in {Absent, Val(True), Const(False)},
     mp \in {Absent, Const(Str("mapped"))},
     fl \in {Flat("absent", EmptyObj), Flat("falsy", EmptyObj),
             Flat("patch", Patch({"a"}, "flat of a")),
             Flat("patch", Patch({"b"}, "flat of a")),
             Flat("patch", Patch({"x", "y"}, "flat of a"))},
     c \in {Absent}}

ExportDefsB ==
  {[NoDef EXCEPT !.disabled = d, !.drop = dr, !.flat = fl] :
     d \in {NAbsent, NVal(Str("off"))},
     dr \in {Absent, Const(True)},
     fl \in {Flat("absent", EmptyObj), Flat("patch", Patch({"a"}, "flat of b")),
             Flat("patch", Patch({"b", "x"}, "flat of b"))}}

ExportSchemas ==
  {One(a) : a \in ExportDefsA}
  \cup {[k \in {"a", "b"} |-> IF k = "a" THEN a ELSE b] :
          a \in ExportDefsA, b \in ExportDefsB}

InitExport ==
  /\ schema \in ExportSchemas
  /\ onErrorRet \in OnErrorRets
  /\ op = Idle
  /\ store = EmptyObj
  /\ heap = FirstFree
  /\ prototypes = Registered
  /\ rule = NoRule
  /\ microtasks = <<>>
  /\ trace = NoTrace
  /\ ty = Facade
  /\ result = Ret(Undefined, M0)

NextExport == Export \/ Parse \/ Done

SpecExport == InitExport /\ [][NextExport]_vars

(* Schemas for required / disabled / readonly: every form of the meta.     *)
DetermineForms ==
  NodeForms \cup
  {NVal(Str("")), NFn(Const(Str("yes"))), NFn(Const(Undefined)),
   NObj(Val(Str("by determine")), Absent), NObj(Absent, Val(Str("by message"))),
   NObj(Val(False), Absent)}

DetermineSchemas ==
  {One([NoDef EXCEPT ![meta] = n, !.catch = c]) :
     meta \in {"required", "disabled", "readonly"}, n \in DetermineForms,
     c \in Catches}

InitDetermine ==
  /\ schema \in DetermineSchemas
  /\ onErrorRet \in OnErrorRets
  /\ op = Idle
  /\ store = EmptyObj
  /\ heap = FirstFree
  /\ prototypes = Registered
  /\ rule = NoRule
  /\ microtasks = <<>>
  /\ trace = NoTrace
  /\ ty = Facade
  /\ result = Ret(Undefined, M0)

NextDetermine == Required \/ Disabled \/ Readonly \/ Done

SpecDetermine == InitDetermine /\ [][NextDetermine]_vars

(* Schemas whose meta functions throw, for the error routing: one family *)
(* for reads and writes, one for parse and export, one for the determine   *)
(* metas and the validators.                                               *)
TrySchemas ==
  {One([NoDef EXCEPT !.getter = g, !.setter = st, !.compute = cp,
                     !.disabled = d, !.catch = c]) :
     g \in {Absent, Id, Throws}, st \in {Absent, Throws},
     cp \in {Absent, Throws}, d \in {NAbsent, NFn(Throws)}, c \in Catches}
  \cup
  {One([NoDef EXCEPT !.default = Val(Str("by default")), !.create = cr,
                     !.map = mp, !.drop = dr, !.flat = fl, !.disabled = d,
                     !.catch = c]) :
     cr \in {Absent, Throws}, mp \in {Absent, Id, Throws},
     dr \in {Absent, Throws},
     fl \in {Flat("absent", EmptyObj), Flat("throw", EmptyObj),
             Flat("patch", Patch({"x"}, "flat of a"))},
     d \in {NAbsent, NFn(Throws)}, c \in Catches}
  \cup
  {One([NoDef EXCEPT !.required = r, !.disabled = d, !.readonly = ro,
                     !.validators = vs, !.catch = c]) :
     r \in {NAbsent, NFn(Throws), NObj(Throws, Absent)},
     d \in {NAbsent, NFn(Throws)}, ro \in {NAbsent, NObj(Throws, Absent)},
     vs \in {<<>>,
             <<Validator(Throws, Const(False), Val(Str("determine throws")))>>,
             <<Validator(Absent, Const(True), Absent),
               Validator(Throws, Const(False), Val(Str("determine throws")))>>},
     c \in Catches}

InitTry ==
  /\ schema \in TrySchemas
  /\ onErrorRet \in OnErrorRets
  /\ op = Idle
  /\ store = EmptyObj
  /\ heap = FirstFree
  /\ prototypes = Registered
  /\ rule = NoRule
  /\ microtasks = <<>>
  /\ trace = NoTrace
  /\ ty = Facade
  /\ result = Ret(Undefined, M0)

NextTry ==
  \/ Get \/ DSet \/ Set \/ Validate \/ Parse \/ Export
  \/ Required \/ Disabled \/ Readonly \/ Done

SpecTry == InitTry /\ [][NextTry]_vars

(* Schemas of a model with one field: age of the format test and of the    *)
(* form example, and its variations.                                       *)
ModelSchemas ==
  {One([NoDef EXCEPT !.default = df, !.type = t, !.setter = st, !.getter = g,
                     !.compute = cp, !.disabled = d, !.required = r,
                     !.validators = vs]) :
     df \in {Val(Num("0")), Val(Str(""))},
     t \in {"none", "Number", "String"},
     st \in {Absent, NumberSetter, Id},
     g \in {Absent, TextGetter},
     cp \in {Absent, Const(Str("computed"))},
     d \in {NAbsent, NVal(True)},
     r \in {NAbsent, NVal(True)},
     vs \in {<<>>,
             <<Validator(Absent, Const(True), Val(Str("never shown")))>>,
             <<Validator(Absent, Positive,
                         Val(Str("age should must bigger than 0")))>>}}

InitModel ==
  /\ schema \in ModelSchemas
  /\ onErrorRet \in OnErrorRets
  /\ op = Idle
  /\ store = EmptyObj
  /\ heap = FirstFree
  /\ prototypes = Registered
  /\ rule = NoRule
  /\ microtasks = <<>>
  /\ trace = NoTrace
  /\ ty = Facade
  /\ result = Ret(Undefined, M0)

NextModel == ModelNew \/ ModelSet \/ ModelGet \/ ModelValidate \/ Done

SpecModel == InitModel /\ [][NextModel]_vars

(* Schemas for parse: field a with every form of create and default, and  *)
(* an optional second field b.                                             *)
ParseDefsA ==
  {[NoDef EXCEPT !.create = cr, !.default = df, !.type = t, !.catch = c] :
     cr \in {Absent, Id, Const(Undefined), Const(Null), Const(Str("created")),
             Throws},
     df \in {Val(Undefined), Val(Str("by default")), Const(Num("12"))},
     t \in {"none", "String", "ifexist(String)"},
     c \in {Absent, Const(Str("caught"))}}

ParseDefsB ==
  {[NoDef EXCEPT !.create = cr, !.default = df, !.type = t] :
     cr \in {Absent, Const(Undefined)},
     df \in {Val(Null), Val(Str("default of b"))},
     t \in {"none", "Number"}}

ParseSchemas ==
  {One(a) : a \in ParseDefsA}
  \cup {[k \in {"a", "b"} |-> IF k = "a" THEN a ELSE b] :
          a \in ParseDefsA, b \in ParseDefsB}

InitParse ==
  /\ schema \in ParseSchemas
  /\ onErrorRet \in OnErrorRets
  /\ op = Idle
  /\ store = EmptyObj
  /\ heap = FirstFree
  /\ prototypes = Registered
  /\ rule = NoRule
  /\ microtasks = <<>>
  /\ trace = NoTrace
  /\ ty = Facade
  /\ result = Ret(Undefined, M0)

NextParse == Parse \/ Done

SpecParse == InitParse /\ [][NextParse]_vars

(* Schemas for the round trip: fields with defaults, types and write and  *)
(* read transforms, with and without a map.                                *)
RoundDefs ==
  {[NoDef EXCEPT !.default = df, !.type = t, !.setter = st, !.getter = g,
                 !.map = mp] :
     df \in {Val(Undefined), Val(Null), Val(Str("by default")), Const(Num("12"))},
     t \in {"none", "String", "Number"},
     st \in {Absent, NumberSetter},
     g \in {Absent, TextGetter},
     mp \in {Absent, Const(Str("mapped"))}}

RoundSchemas ==
  {One(a) : a \in RoundDefs}
  \cup {[k \in {"a", "b"} |-> IF k = "a" THEN a ELSE b] :
          a \in RoundDefs,
          b \in {[NoDef EXCEPT !.default = Val(Str("default of b"))],
                 [NoDef EXCEPT !.type = "Number", !.required = NVal(True)]}}

InitRound ==
  /\ schema \in RoundSchemas
  /\ onErrorRet \in OnErrorRets
  /\ op = Idle
  /\ store = EmptyObj
  /\ heap = FirstFree
  /\ prototypes = Registered
  /\ rule = NoRule
  /\ microtasks = <<>>
  /\ trace = NoTrace
  /\ ty = Facade
  /\ result = Ret(Undefined, M0)

NextRound == RoundTrip \/ RoundTripAgain \/ Done

SpecRound == InitRound /\ [][NextRound]_vars

(* The defaults of $default: values, functions, and objects and arrays     *)
(* that hold values, objects and arrays, down to three levels.             *)
DefaultObjects ==
  {Box("object", 1, <<>>),
   Box("array", 1, <<Str("x"), Num("12")>>),
   Box("object", 1, <<Box("array", 2, <<>>), Str("x")>>),
   Box("array", 1, <<Box("object", 2, <<Box("object", 3, <<>>)>>)>>),
   Box("object", 2, <<Box("array", 3, <<Null>>)>>)}

DefaultDefs ==
  {[NoDef EXCEPT !.default = df] :
     df \in {Absent, Val(Null), Val(Str("x")), Val(Num("0")),
             Const(Str("made")), Const(Box("object", 1, <<>>)), Throws}
            \cup {Val(o) : o \in DefaultObjects}}

DefaultSchemas ==
  {One(a) : a \in DefaultDefs}
  \cup {[k \in {"a", "b"} |-> IF k = "a" THEN a ELSE b] :
          a \in DefaultDefs, b \in DefaultDefs}

InitDefault ==
  /\ schema \in DefaultSchemas
  /\ onErrorRet = Undefined
  /\ op = Idle
  /\ store = EmptyObj
  /\ heap = FirstFree
  /\ prototypes = Registered
  /\ rule = NoRule
  /\ microtasks = <<>>
  /\ trace = NoTrace
  /\ ty = Facade
  /\ result = Ret(Undefined, M0)

NextDefault == Default \/ Done

SpecDefault == InitDefault /\ [][NextDefault]_vars

(* The facade, or a Ty of its own.                                         *)
InitTy ==
  /\ schema = One(NoDef)
  /\ onErrorRet = Undefined
  /\ op = Idle
  /\ store = EmptyObj
  /\ heap = FirstFree
  /\ prototypes = Registered
  /\ rule = NoRule
  /\ microtasks = <<>>
  /\ trace = NoTrace
  /\ ty \in {NewTy(TRUE), NewTy(FALSE)}
  /\ result = Ret(Undefined, M0)

NextTy ==
  Silent \/ Bind \/ Unbind \/ Expect \/ Catch \/ Is \/ Deliver \/ Done

SpecTy == InitTy /\ [][NextTy]_vars

InitTuple ==
  /\ schema = One(NoDef)
  /\ onErrorRet = Undefined
  /\ op = Idle
  /\ store = EmptyObj
  /\ heap = FirstFree
  /\ prototypes = Registered
  /\ rule = NoRule
  /\ microtasks = <<>>
  /\ trace = NoTrace
  /\ ty = Facade
  /\ result = Ret(Undefined, M0)

NextTuple == TupleAssert \/ Done

SpecTuple == InitTuple /\ [][NextTuple]_vars

InitPrototype ==
  /\ schema = One(NoDef)
  /\ onErrorRet = Undefined
  /\ op = Idle
  /\ store = EmptyObj
  /\ heap = FirstFree
  /\ prototypes = Registered
  /\ rule = NoRule
  /\ microtasks = <<>>
  /\ trace = NoTrace
  /\ ty = Facade
  /\ result = Ret(Undefined, M0)

NextPrototype == Register \/ Unregister \/ Typeof \/ Done

SpecPrototype == InitPrototype /\ [][NextPrototype]_vars

InitAsynch ==
  /\ schema = One(NoDef)
  /\ onErrorRet = Undefined
  /\ op = Idle
  /\ store = EmptyObj
  /\ heap = FirstFree
  /\ prototypes = Registered
  /\ rule = NoRule
  /\ microtasks = <<>>
  /\ trace = NoTrace
  /\ ty = Facade
  /\ result = Ret(Undefined, M0)

NextAsynch ==
  \/ Asynch \/ RunFn \/ Settle \/ RunSwitch \/ QueueCheck \/ RunCheck
  \/ RuleCheck \/ Done

SpecAsynch == InitAsynch /\ [][NextAsynch]_vars

InitTrace ==
  /\ schema = One(NoDef)
  /\ onErrorRet = Undefined
  /\ op = Idle
  /\ store = EmptyObj
  /\ heap = FirstFree
  /\ prototypes = Registered
  /\ rule = NoRule
  /\ microtasks = <<>>
  /\ trace = NewTrace([k \in TraceKeys |-> Str("")])
  /\ ty = Facade
  /\ result = Ret(Undefined, M0)

NextTrace ==
  \/ TraceSet \/ TraceCommit \/ TraceReset \/ TraceUndo \/ TraceRedo
  \/ TraceClear

SpecTrace == InitTrace /\ [][NextTrace]_vars

(* ----------------------------- claims --------------------------------- *)

Log == result.m.log

Calls == result.m.calls

Called(fn) == \E i \in 1..Len(Calls) : Calls[i].fn = fn

Flagged(flags) == SelectSeq(Log, LAMBDA e : e.flag \in flags)

MetaErrors == Flagged({"meta"})

(* C2: for a schema field whose disabled or readonly resolves truthy,      *)
(* set returns prev, does not throw, hands onError one refusal error and   *)
(* calls neither the setter nor the type check; disabled comes first: when *)
(* it is truthy the refusal is flagged disabled and readonly is not        *)
(* evaluated (whatever else onError received came from a meta that threw,  *)
(* and precedes the refusal).  When neither is truthy the outcome is that  *)
(* of $set(key, next, ctx).                                                *)
C2_SetRefusesDisabledThenReadonly ==
  (op.name = "set" /\ dhas(op.key)) =>
    LET d == disabled(op.key, M0)
        r == readonly(op.key, d.m)
        refusals == Flagged({"disabled", "readonly"})
        refused(flag) ==
          /\ result.st = "ret"
          /\ result.v = op.prev
          /\ Len(refusals) = 1
          /\ refusals[1].flag = flag
          /\ refusals[1].key = op.key
          /\ refusals[1].next = op.value
          /\ refusals[1].prev = op.prev
          /\ Log[Len(Log)] = refusals[1]
          /\ Len(MetaErrors) = Len(Log) - 1
          /\ ~ Called("setter")
          /\ ~ Called("type")
          /\ ~ Called("compute")
    IN IF Truthy(d.v) THEN refused("disabled") /\ ~ Called("readonly")
       ELSE IF Truthy(r.v) THEN refused("readonly")
       ELSE /\ refusals = <<>>
            /\ result = dset(op.key, op.value, r.m)

(* C2 witness: both disabled and readonly are truthy and set returned prev *)
(* after one disabled-flagged refusal.                                     *)
C2_Witness ==
  /\ op.name = "set"
  /\ dhas(op.key)
  /\ Truthy(disabled(op.key, M0).v)
  /\ Truthy(readonly(op.key, M0).v)
  /\ schema[op.key].readonly.k = "const"
  /\ result.v = op.prev
  /\ Len(Flagged({"disabled"})) = 1

WriteReachesDSet ==
  /\ op.name \in {"$set", "set"}
  /\ dhas(op.key)
  /\ op.name = "set" =>
       /\ ~ Truthy(disabled(op.key, M0).v)
       /\ ~ Truthy(readonly(op.key, M0).v)

(* C8: a write to a field with a compute meta, through $set or through set *)
(* when the field is neither disabled nor readonly, hands onError one      *)
(* compute-flagged error, calls neither the setter nor the type check, and *)
(* its outcome is that of compute called on the context, whatever value    *)
(* was written.                                                            *)
C8_ComputeWriteIsNoOp ==
  (WriteReachesDSet /\ isFunction(schema[op.key].compute)) =>
    LET c == Apply(schema[op.key].compute, Undefined)
        flagged == Flagged({"compute"})
    IN /\ Len(flagged) = 1
       /\ flagged[1].key = op.key
       /\ flagged[1].value = op.value
       /\ flagged[1].message = defualtMessages(op.key, "compute")
       /\ op.name = "$set" => Log = flagged
       /\ ~ Called("setter")
       /\ ~ Called("type")
       /\ result.st = (IF c.thrown THEN "throw" ELSE "ret")
       /\ result.v = c.v

(* C8 witness: a value other than the computed one was written to a field  *)
(* that has compute, a setter and a type, and the computed value came back.*)
C8_Witness ==
  /\ op.name = "$set"
  /\ dhas(op.key)
  /\ schema[op.key].compute = Const(Str("computed"))
  /\ schema[op.key].setter = Const(Num("12"))
  /\ schema[op.key].type = "Number"
  /\ op.value = Str("x")
  /\ result = Ret(Str("computed"), result.m)
  /\ Len(Log) = 1

(* The value the type check of the last operation looked at.               *)
TypeChecked == SelectSeq(Calls, LAMBDA c : c.fn = "type")

(* C9: when the value written to a typed field (after the setter) does not *)
(* match the type, $set still returns that value and hands onError exactly *)
(* one type-flagged error, whose message is the field's message meta when  *)
(* that is a string and '{key} does not match type.' otherwise; when the   *)
(* value matches, onError gets no type error (and nothing at all unless    *)
(* the setter threw).                                                      *)
C9_TypeMismatchReported ==
  (/\ op.name = "$set"
   /\ dhas(op.key)
   /\ schema[op.key].type # "none"
   /\ schema[op.key].compute.k = "absent") =>
    LET def == schema[op.key]
        typeErrs == Flagged({"type"})
    IN /\ result.st = "ret"
       /\ Len(TypeChecked) = 1
       /\ result.v = TypeChecked[1].arg
       /\ IF TyCatch(def.type, result.v) # Null
          THEN /\ Len(typeErrs) = 1
               /\ typeErrs[1].value = result.v
               /\ typeErrs[1].message =
                    (IF isString(MetaValue(def.message)) THEN def.message.v
                     ELSE Str(op.key \o " does not match type."))
          ELSE /\ typeErrs = <<>>
               /\ Log = MetaErrors
               /\ ~ Called("onError") \/ def.setter = Throws

(* The calls of validator functions.                                      *)
ValidatorCalls ==
  {ValidatorMeta(i, part) : i \in 0..MaxValidators,
                            part \in {"determine", "validate", "message"}}

CalledAny(fns) == \E i \in 1..Len(Calls) : Calls[i].fn \in fns

(* C1: validate always returns an array and never throws, whatever the     *)
(* key, the value and the behaviour of the field's metas.                  *)
C1_ValidateReturnsArray ==
  op.name = "validate" =>
    /\ result.st = "ret"
    /\ \A i \in 1..Len(result.v) : result.v[i].key \in {op.key, "sub"}

(* C4: validate returns [] for a disabled field without evaluating         *)
(* required, type or validators; else one required-flagged error for an    *)
(* empty value of a required field, without evaluating type or validators; *)
(* else the type error (if any) first, then the validators' errors in      *)
(* ascending validator index.                                              *)
C4_ValidateOrder ==
  (op.name = "validate" /\ dhas(op.key)) =>
    LET def == schema[op.key]
        d == disabled(op.key, M0)
        r == required(op.key, d.m)
        own == SelectSeq(result.v, LAMBDA e : e.key = op.key /\ e.flag = "none")
    IN IF Truthy(d.v)
       THEN /\ result = Ret(<<>>, d.m)
            /\ ~ CalledAny({"required", "type"} \cup ValidatorCalls)
       ELSE IF Truthy(r.v) /\ isEmpty(op.value)
       THEN /\ result.st = "ret"
            /\ Len(result.v) = 1
            /\ result.v[1].flag = "required"
            /\ ~ CalledAny({"type"} \cup ValidatorCalls)
       ELSE /\ result.st = "ret"
            /\ \A i \in 1..Len(result.v) : result.v[i].flag = "type" => i = 1
            /\ (def.type # "none" /\ TyCatch(def.type, op.value) # Null)
                 <=> (result.v # <<>> /\ result.v[1].flag = "type")
            /\ \A i \in 1..Len(result.v) : result.v[i].flag # "required"
            /\ \A i, j \in 1..Len(own) : i < j => own[i].at < own[j].at

(* Position of the first element of sub in seq, when sub lies in seq as a  *)
(* run of consecutive elements.                                            *)
LiesIn(sub, seq) ==
  \E k \in 0..(Len(seq) - Len(sub)) :
    \A i \in 1..Len(sub) : seq[k + i] = sub[i]

(* C5: when a validator's validate function returns an array, its elements *)
(* are appended in order to the errors validate returns, and no error      *)
(* object is made for that validator.                                      *)
C5_ArraySpliced ==
  (op.name = "validate" /\ dhas(op.key)) =>
    \A i \in 0..(Len(schema[op.key].validators) - 1) :
      LET fn == schema[op.key].validators[i + 1].validate
      IN (Called(ValidatorMeta(i, "validate")) /\ fn.k = "const" /\ isArray(fn.v)) =>
           /\ result.st = "ret"
           /\ LiesIn(ArrElems(fn.v), result.v)
           /\ \A j \in 1..Len(result.v) :
                ~ (result.v[j].key = op.key /\ result.v[j].at = i)

(* C3, as stated: a field whose disabled resolves truthy is no key of what *)
(* export returns, whatever drop, map and flat metas are declared.         *)
C3_DisabledNeverExported ==
  (op.name = "export" /\ result.st = "ret") =>
    \A K \in DOMAIN schema :
      Truthy(disabled(K, M0).v) => K \notin DOMAIN result.v

(* What the flat of field K contributes to the patch here.                 *)
FlatOf(K) == IF schema[K].flat.k = "patch" THEN schema[K].flat.p ELSE EmptyObj

(* C3, amended: for a field K whose disabled resolves truthy, export never *)
(* emits K's own raw or mapped value; K is a key of the result only when   *)
(* some field's flat result has the key K, and then with the value of the  *)
(* last such flat.                                                         *)
C3_DisabledOnlyByFlat ==
  (op.name = "export" /\ result.st = "ret") =>
    \A K \in DOMAIN schema :
      Truthy(disabled(K, M0).v) =>
        LET from == SelectSeq(SchemaKeys, LAMBDA f : K \in DOMAIN FlatOf(f))
        IN IF from = <<>> THEN K \notin DOMAIN result.v
           ELSE /\ K \in DOMAIN result.v
                /\ result.v[K] = FlatOf(from[Len(from)])[K]

(* C3 witness: a disabled field that has a value, a map and no flat of its *)
(* key anywhere was exported, and is no key of the result.                 *)
C3_Witness ==
  /\ op.name = "export"
  /\ result.st = "ret"
  /\ "b" \in DOMAIN schema
  /\ Truthy(disabled("a", M0).v)
  /\ schema["a"].map # Absent
  /\ "a" \in DOMAIN op.data
  /\ "a" \notin DOMAIN result.v
  /\ "b" \in DOMAIN result.v

DetermineOps == {"required", "disabled", "readonly"}

CatchValue(def, dflt) ==
  IF isFunction(def.catch) /\ Truthy(def.catch.v) THEN def.catch.v ELSE dflt

(* C10, as stated: required, disabled and readonly return a boolean for    *)
(* every form of the meta; a string meta yields true, an absent meta or an *)
(* unknown key false, a determine function that throws false unless the    *)
(* catch handler returns a truthy substitute.                              *)
C10_DetermineIsBoolean ==
  op.name \in DetermineOps =>
    /\ result.st = "ret"
    /\ isBoolean(result.v)
    /\ dhas(op.key) =>
         LET node == schema[op.key][op.name]
         IN /\ (node.k = "val" /\ isString(node.v)) => result.v = True
            /\ node.k = "absent" => result.v = False
    /\ ~ dhas(op.key) => result.v = False

(* C10, amended: required, disabled and readonly return the resolved value *)
(* of the meta, which is not always a boolean: a boolean or string meta    *)
(* yields itself (a non-empty string is truthy), a function or a           *)
(* {determine: function} yields what the function returns, {determine:     *)
(* value} yields that value, an absent meta or an unknown key yields       *)
(* false, and a determine function that throws yields false unless the     *)
(* catch handler returns a truthy substitute, which is then the result.    *)
C10_DetermineResolves ==
  op.name \in DetermineOps =>
    /\ result.st = "ret"
    /\ IF ~ dhas(op.key) THEN result.v = False
       ELSE
         LET def == schema[op.key]
             node == def[op.name]
             fn == IF isObject(node) THEN node.det ELSE F(node.k, node.v)
         IN IF node.k = "absent" THEN result.v = False
            ELSE IF fn.k = "throw" THEN result.v = CatchValue(def, False)
            ELSE IF fn.k = "const" THEN result.v = fn.v
            ELSE IF isObject(node) THEN result.v = MetaValue(node.det)
            ELSE result.v = node.v

(* C10 witness: a string meta was resolved, and a throwing determine was   *)
(* resolved with a catch handler that gives no substitute.                 *)
C10_Witness ==
  /\ op.name = "required"
  /\ dhas(op.key)
  /\ schema[op.key].required = NFn(Throws)
  /\ schema[op.key].catch = Const(Undefined)
  /\ result.v = False

(* The meta function a call in Calls ran.                                 *)
DetFn(node) == IF isObject(node) THEN node.det ELSE F(node.k, node.v)

MetaFn(c) ==
  LET def == schema[c.key]
  IN CASE c.fn \in {"getter", "setter", "create", "map", "drop", "compute"} ->
            def[c.fn]
       [] c.fn = "flat" -> F(def.flat.k, Undefined)
       [] c.fn \in DetermineOps -> DetFn(def[c.fn])
       [] OTHER ->
            LET at == CHOOSE i \in 0..MaxValidators :
                        \E part \in {"determine", "validate", "message"} :
                          c.fn = ValidatorMeta(i, part)
            IN IF c.fn = ValidatorMeta(at, "determine")
               THEN def.validators[at + 1].determine
               ELSE IF c.fn = ValidatorMeta(at, "validate")
               THEN def.validators[at + 1].validate
               ELSE def.validators[at + 1].message

TriedMetas ==
  {"getter", "setter", "create", "map", "drop", "flat"} \cup DetermineOps
  \cup ValidatorCalls

ThrewAt(i) == Calls[i].fn \in TriedMetas /\ MetaFn(Calls[i]).k = "throw"

(* The routing of one throw: onError next, with {key, meta, error}, and    *)
(* once for each time the function was called; then the catch handler, if  *)
(* there is one, with what onError returned if truthy and with the record  *)
(* otherwise.                                                              *)
Routed(i) ==
  LET c == Calls[i]
      rec == MetaErr(c.key, c.fn, Err("boom"))
      toOnError == [fn |-> "onError", key |-> c.key, arg |-> rec]
      e == IF Truthy(onErrorRet) THEN onErrorRet ELSE rec
  IN /\ i + 1 <= Len(Calls)
     /\ Calls[i + 1] = toOnError
     /\ Cardinality({j \in 1..Len(Calls) : Calls[j] = toOnError})
          = Cardinality({j \in 1..Len(Calls) : Calls[j] = c})
     /\ IF isFunction(schema[c.key].catch)
        THEN /\ i + 2 <= Len(Calls)
             /\ Calls[i + 2] = [fn |-> "catch", key |-> c.key, arg |-> e]
        ELSE ~ Called("catch")

(* What the export of a one-field schema returns when its metas throw.     *)
ExportOfOne(key, data) ==
  LET def == schema[key]
      value == Prop(data, key)
      patch == IF def.flat.k = "patch" THEN def.flat.p ELSE EmptyObj
      isDisabled == DetFn(def.disabled).k = "throw"
                      /\ Truthy(CatchValue(def, False))
      dropped == def.drop.k = "throw" /\ Truthy(CatchValue(def, False))
      own == IF def.map.k = "throw" THEN CatchValue(def, value) ELSE value
  IN IF isDisabled \/ dropped THEN patch ELSE patch @@ (key :> own)

(* C6: a throw of a meta function run through _trydo is routed to onError  *)
(* once, as {key, meta, error}, then to the catch handler with onError's   *)
(* return value if truthy and with the record otherwise; the result is the *)
(* catch handler's return value when truthy and otherwise the default:     *)
(* false for required / disabled / readonly and a validator's determine,   *)
(* the unmodified value for getter, setter, create and map, {} for flat,   *)
(* false for drop.                                                         *)
C6_ThrowIsRouted ==
  /\ \A i \in 1..Len(Calls) : ThrewAt(i) => Routed(i)
  /\ (op.name \in DetermineOps /\ dhas(op.key)
        /\ DetFn(schema[op.key][op.name]).k = "throw") =>
       result = Ret(CatchValue(schema[op.key], False), result.m)
  /\ (op.name = "get" /\ dhas(op.key) /\ schema[op.key].compute = Absent
        /\ schema[op.key].getter = Throws) =>
       result = Ret(CatchValue(schema[op.key], op.value), result.m)
  /\ (op.name = "$set" /\ dhas(op.key) /\ schema[op.key].compute = Absent
        /\ schema[op.key].setter = Throws) =>
       result = Ret(CatchValue(schema[op.key], op.value), result.m)
  /\ (op.name = "parse" /\ schema["a"].create = Throws) =>
       LET coming == CatchValue(schema["a"], Prop(op.data, "a"))
       IN /\ result.st = "ret"
          /\ result.v["a"] = IF isUndefined(coming) THEN Str("by default")
                             ELSE coming
  /\ (op.name = "export" /\ schema["a"].validators = <<>>
        /\ schema["a"].readonly = NAbsent) =>
       result = Ret(ExportOfOne("a", op.data), result.m)
  /\ (op.name = "validate" /\ dhas(op.key)) =>
       \A i \in 0..(Len(schema[op.key].validators) - 1) :
         (/\ schema[op.key].validators[i + 1].determine = Throws
          /\ Called(ValidatorMeta(i, "determine"))) =>
           (Called(ValidatorMeta(i, "validate"))
              <=> Truthy(CatchValue(schema[op.key], False)))

(* C6 witness: a getter threw, onError returned a substitute, the catch    *)
(* handler received it and returned nothing, and get returned the value.   *)
C6_Witness ==
  /\ op.name = "get"
  /\ dhas(op.key)
  /\ schema[op.key].getter = Throws
  /\ schema[op.key].catch = Const(Undefined)
  /\ onErrorRet = Obj("substitute")
  /\ Len(Calls) = 3
  /\ Calls[3].fn = "catch"
  /\ result = Ret(op.value, result.m)

(* C7: no exception thrown by a field meta function leaves get, $set, set, *)
(* validate, parse or export.                                              *)
C7_NoMetaThrowEscapes ==
  op.name \in {"get", "$set", "set", "validate", "parse", "export"} =>
    ~ (result.st = "throw" /\ result.v = Err("boom"))

(* The write of the model was accepted: the field is neither disabled nor  *)
(* readonly.                                                               *)
WriteAccepted ==
  /\ op.name = "model.set"
  /\ ~ Truthy(disabled(op.key, M0).v)
  /\ ~ Truthy(readonly(op.key, M0).v)

C12_ConstructionUsesSetter ==
  (op.name = "construct" /\ result.st = "ret") =>
    \A k \in DOMAIN schema \cap DOMAIN op.data :
      (isFunction(schema[k].setter) /\ schema[k].compute = Absent
       /\ ~ isUndefined(op.data[k])) =>
        store[k] = Apply(schema[k].setter, op.data[k]).v

(* What create gives for a field of the data: [thrown, v].                 *)
Coming(k, data) ==
  IF isFunction(schema[k].create) THEN Apply(schema[k].create, Prop(data, k))
  ELSE [thrown |-> FALSE, v |-> Prop(data, k)]

DefaultValue(k) ==
  IF isFunction(schema[k].default) THEN Apply(schema[k].default, Undefined).v
  ELSE MetaValue(schema[k].default)

Parsed(k, data) ==
  IF isUndefined(Coming(k, data).v) THEN DefaultValue(k) ELSE Coming(k, data).v

TypeErrorsOf(k) == SelectSeq(Log, LAMBDA e : e.flag = "type" /\ e.key = k)

(* C13: parse(data, ctx) returns a record whose keys are exactly the       *)
(* schema's fields; the value of a field is what create returns when       *)
(* create is defined (and does not throw) and data[key] otherwise,         *)
(* replaced by the field's default when it is undefined but not when it is *)
(* null; a value that fails the field's type is handed to onError once, as *)
(* a type error of parse, and is still the value returned.                 *)
C13_ParseContract ==
  op.name = "parse" =>
    /\ result.st = "ret"
    /\ DOMAIN result.v = DOMAIN schema
    /\ \A k \in DOMAIN schema :
         ~ Coming(k, op.data).thrown =>
           LET v == Parsed(k, op.data)
               fails == schema[k].type # "none" /\ TyCatch(schema[k].type, v) # Null
           IN /\ result.v[k] = v
              /\ Len(TypeErrorsOf(k)) = (IF fails THEN 1 ELSE 0)
              /\ \A i \in 1..Len(TypeErrorsOf(k)) :
                   /\ TypeErrorsOf(k)[i].value = v
                   /\ TypeErrorsOf(k)[i].action = "parse"

(* C13 witness: the data holds null for a, a string field with a default,  *)
(* and a key q that is no field; the result holds a alone, null, and one   *)
(* type error was reported.                                                *)
C13_Witness ==
  /\ op.name = "parse"
  /\ DOMAIN schema = {"a"}
  /\ "q" \in DOMAIN op.data
  /\ op.data["a"] = Null
  /\ schema["a"].create = Absent
  /\ schema["a"].default = Val(Str("by default"))
  /\ schema["a"].type = "String"
  /\ result.v = [k \in {"a"} |-> Null]
  /\ Len(Log) = 1

(* The drop meta of field K resolves truthy for this data.                 *)
Dropped(K, data) ==
  \/ schema[K].drop = Val(True)
  \/ /\ isFunction(schema[K].drop)
     /\ Truthy(Apply(schema[K].drop, Prop(data, K)).v)

(* Field K is part of the base: neither disabled nor dropped.              *)
InBase(K, data) == ~ Truthy(disabled(K, M0).v) /\ ~ Dropped(K, data)

OwnValue(K, data) ==
  IF isFunction(schema[K].map) THEN Apply(schema[K].map, Prop(data, K)).v
  ELSE Prop(data, K)

PatchKeys == UNION {DOMAIN FlatOf(f) : f \in DOMAIN schema}

(* C14: export returns base and patch merged, the patch winning: every key *)
(* of any field's flat result is in the output with flat's value (that of  *)
(* the last field whose flat has the key), also when a field has that      *)
(* name, whatever the order of the fields; flat is called once for every   *)
(* field that has one, dropped and disabled fields included; a field that  *)
(* is neither disabled nor dropped and is no patch key is in the output    *)
(* with map's result when map is defined and its raw value otherwise; a    *)
(* disabled or dropped field contributes no value of its own.              *)
C14_ExportIsBaseAndPatch ==
  op.name = "export" =>
    /\ result.st = "ret"
    /\ DOMAIN result.v =
         PatchKeys \cup {K \in DOMAIN schema : InBase(K, op.data)}
    /\ \A k \in PatchKeys :
         LET from == SelectSeq(SchemaKeys, LAMBDA f : k \in DOMAIN FlatOf(f))
         IN result.v[k] = FlatOf(from[Len(from)])[k]
    /\ \A K \in DOMAIN schema \ PatchKeys :
         InBase(K, op.data) => result.v[K] = OwnValue(K, op.data)
    /\ \A K \in DOMAIN schema :
         Cardinality({i \in 1..Len(Calls) :
                        Calls[i].fn = "flat" /\ Calls[i].key = K})
           = (IF schema[K].flat.k = "absent" THEN 0 ELSE 1)

(* C14 witness: field a has a map and its own value, field b declared      *)
(* after it is dropped and its flat produces the key a; the output holds   *)
(* a with b's flat value and has no key b.                                 *)
C14_Witness ==
  /\ op.name = "export"
  /\ DOMAIN schema = {"a", "b"}
  /\ op.data = [k \in {"a", "b", "q"} |-> Str("x")]
  /\ schema["a"].map = Const(Str("mapped"))
  /\ schema["a"].disabled = NAbsent
  /\ schema["a"].drop = Absent
  /\ schema["a"].flat.k = "absent"
  /\ schema["b"].drop = Const(True)
  /\ schema["b"].flat = Flat("patch", Patch({"a"}, "flat of b"))
  /\ result.v = [k \in {"a"} |-> Str("flat of b")]

(* No field declares create, drop, map, flat or disabled.                  *)
PlainSchema ==
  \A k \in DOMAIN schema :
    /\ schema[k].create = Absent
    /\ schema[k].drop = Absent
    /\ schema[k].map = Absent
    /\ schema[k].flat.k = "absent"
    /\ schema[k].disabled = NAbsent

(* C15: for a schema whose fields declare no create, drop, map, flat or    *)
(* disabled, export(parse(J)) holds exactly the schema's fields, each with *)
(* J's value where J defines it and with the field's default where J       *)
(* leaves it undefined; parse then export of that result gives the same    *)
(* record again.                                                           *)
C15_RoundTrip ==
  (op.name \in {"roundtrip", "roundtrip again"} /\ PlainSchema) =>
    /\ result.st = "ret"
    /\ DOMAIN result.v = DOMAIN schema
    /\ \A k \in DOMAIN schema :
         result.v[k] = (IF isUndefined(Prop(op.data, k)) THEN DefaultValue(k)
                        ELSE op.data[k])
    /\ op.name = "roundtrip again" => result.v = op.data

(* C15 witness: J held a string for a and nothing for b; the second round *)
(* trip returned the record of the first: a as in J, b its default.        *)
C15_Witness ==
  /\ op.name = "roundtrip again"
  /\ PlainSchema
  /\ DOMAIN schema = {"a", "b"}
  /\ schema["a"].default = Val(Str("by default"))
  /\ schema["a"].type = "Number"
  /\ result.v = [k \in {"a", "b"} |->
                   IF k = "a" THEN Str("x") ELSE Str("default of b")]

(* The model was constructed without input and validate runs on a field    *)
(* whose default satisfies its type and whose required check does not      *)
(* fire.                                                                   *)
FreshAndSound ==
  /\ op.name = "model.validate"
  /\ op.data = [k \in DOMAIN schema |-> DefaultValue(k)]
  /\ \/ schema[op.key].type = "none"
     \/ TyCatch(schema[op.key].type, DefaultValue(op.key)) = Null
  /\ ~ (Truthy(required(op.key, M0).v) /\ isEmpty(DefaultValue(op.key)))

(* C16, as stated: on a model constructed without input, validate(K) is [] *)
(* for every field K whose default satisfies its type and whose required   *)
(* check does not fire, fields that declare validators included.           *)
C16_DefaultsValidate ==
  FreshAndSound => (result.st = "ret" /\ result.v = <<>>)

(* C16, amended: on a model constructed without input, validate(K) is []   *)
(* whenever K's default satisfies K's type, K's required check does not    *)
(* fire and every validator of K accepts the default (its validate returns *)
(* true for it).                                                           *)
C16_DefaultsValidateWhenValidatorsAccept ==
  (FreshAndSound
   /\ \A i \in 1..Len(schema[op.key].validators) :
        Apply(schema[op.key].validators[i].validate, DefaultValue(op.key)).v = True)
    => (result.st = "ret" /\ result.v = <<>>)

(* C16 witness: a required number field with default 0 and a validator     *)
(* that accepts it was validated on the fresh model: the validator ran and *)
(* validate returned [].                                                   *)
C16_Witness ==
  /\ FreshAndSound
  /\ schema[op.key].type = "Number"
  /\ schema[op.key].default = Val(Num("0"))
  /\ schema[op.key].required = NVal(True)
  /\ schema[op.key].disabled = NAbsent
  /\ Len(schema[op.key].validators) = 1
  /\ Called(ValidatorMeta(0, "validate"))
  /\ result.v = <<>>

(* The values the calls of $default in a row have returned so far.         *)
EarlierDefaults == {op.data[i] : i \in DOMAIN op.data}

(* The objects of the schema definitions.                                  *)
DefinitionIds ==
  UNION {Ids(schema[k].default.v) : k \in DOMAIN schema}

(* C17: $default(key) returns what default() returns when default is a     *)
(* function; when default is an object or an array it returns a deep copy: *)
(* a value that holds the same, none of whose objects, at any depth, is an *)
(* object of the schema definition or of what an earlier call returned;    *)
(* any other default is returned as it is.                                 *)
C17_DefaultIsResultCopyOrValue ==
  (op.name = "$default") =>
    LET f == schema[op.key].default
        r == Apply(f, Undefined)
    IN IF isFunction(f)
       THEN r.thrown \/ (result.st = "ret" /\ result.v = r.v)
       ELSE IF isPlainObject(MetaValue(f)) \/ isArray(MetaValue(f))
       THEN /\ result.st = "ret"
            /\ Shape(result.v) = Shape(MetaValue(f))
            /\ Cardinality(Ids(result.v)) = Cardinality(Ids(MetaValue(f)))
            /\ Ids(result.v) \cap DefinitionIds = {}
            /\ \A e \in EarlierDefaults : Ids(result.v) \cap Ids(e) = {}
       ELSE result.st = "ret" /\ result.v = MetaValue(f)

(* The third call in a row for a default that holds an object in an object *)
(* in an array, after two calls that returned copies of it.                *)
C17_Witness ==
  /\ op.name = "$default"
  /\ schema[op.key].default =
       Val(Box("array", 1, <<Box("object", 2, <<Box("object", 3, <<>>)>>)>>))
  /\ Len(op.data) = 2
  /\ \A i \in {1, 2} : Shape(op.data[i]) = Shape(schema[op.key].default.v)
  /\ result.st = "ret"
  /\ Ids(result.v) = {heap - 3, heap - 2, heap - 1}
  /\ Ids(result.v) \cap (Ids(op.data[1]) \cup Ids(op.data[2])) = {}

(* C18 as stated: whatever the Ty and whether it is silent or not,         *)
(* catch(V).by(P) returns null exactly when expect(V).to.match(P) does not *)
(* throw, expect then returns true, a mismatch makes expect throw the      *)
(* type's error, and catch never throws.                                   *)
C18_CatchNullIffExpectReturns ==
  (op.name \in {"expect", "catch"}) =>
    /\ catchBy(op.value, op.key, M0).st = "ret"
    /\ (catchBy(op.value, op.key, M0).v = Null)
         <=> (expectMatch(op.value, op.key, M0).st = "ret")
    /\ (expectMatch(op.value, op.key, M0).st = "ret")
         => (expectMatch(op.value, op.key, M0).v = True)
    /\ (catchBy(op.value, op.key, M0).v # Null)
         => /\ expectMatch(op.value, op.key, M0).st = "throw"
            /\ expectMatch(op.value, op.key, M0).v
                 = catchBy(op.value, op.key, M0).v

(* C18, amended: on the facade and on a Ty that is not silent, catch       *)
(* returns null exactly when expect does not throw, expect then returns    *)
(* true, and a mismatch makes expect throw the type's error; on a silent   *)
(* Ty expect never throws and returns whether catch returns null; catch    *)
(* never throws and returns the error or null.                             *)
C18_CatchNullIffExpectReturnsUnlessSilent ==
  (op.name \in {"expect", "catch"}) =>
    /\ result = (IF op.name = "expect"
                 THEN expectMatch(op.value, op.key, M0)
                 ELSE catchBy(op.value, op.key, M0))
    /\ catchBy(op.value, op.key, M0).st = "ret"
    /\ catchBy(op.value, op.key, M0).v = typeCatch(op.key, op.value)
    /\ ty.facade => ~ ty._silent
    /\ ~ ty._silent =>
         C18_CatchNullIffExpectReturns
    /\ ty._silent =>
         /\ expectMatch(op.value, op.key, M0).st = "ret"
         /\ expectMatch(op.value, op.key, M0).v
              = Bool(catchBy(op.value, op.key, M0).v = Null)

(* A silent Ty with a listener is asked to expect a value that does not    *)
(* match: it returns false, and catch returns the error.                   *)
C18_Witness ==
  /\ op.name = "expect"
  /\ ~ ty.facade
  /\ ty._silent
  /\ ty._listeners # <<>>
  /\ result.st = "ret"
  /\ result.v = False
  /\ catchBy(op.value, op.key, M0).v = Err("TyError")

(* The indexes, from 0, of the items that do not match their positional   *)
(* pattern, among the positions the pattern has.                           *)
Failing(patterns, items) ==
  {i \in 0..(Len(items) - 1) :
     i < Len(patterns) /\ Truthy(tupleItemError(items[i + 1], patterns[i + 1]))}

Lowest(S) == CHOOSE i \in S : \A j \in S : i <= j

(* What C19 says of a value that is no array, of strict mode, and of       *)
(* arrays as long as the pattern.                                          *)
TupleStrictContract ==
  (op.name = "assert") =>
    /\ ~ isArray(op.value) => result = Throw(TyErr("mistaken", NoIndex), M0)
    /\ (isArray(op.value) /\ op.key = "strict"
          /\ Len(op.value.kids) # Len(op.data))
         => result = Throw(TyErr("dirty", NoIndex), M0)
    /\ (isArray(op.value) /\ Len(op.value.kids) = Len(op.data))
         => IF Failing(op.data, op.value.kids) = {}
            THEN result.st = "ret"
            ELSE /\ result.st = "throw"
                 /\ result.v.index = Lowest(Failing(op.data, op.value.kids))

(* What C19 says of loose mode: extra trailing items are let through when  *)
(* the leading ones match.                                                 *)
TupleLooseContract ==
  (op.name = "assert" /\ op.key = "loose" /\ isArray(op.value)
     /\ Len(op.value.kids) > Len(op.data)
     /\ Failing(op.data, op.value.kids) = {})
    => result.st = "ret"

(* C19: Tuple(patterns).assert(value) throws 'mistaken' for a value that   *)
(* is no array; in strict mode it throws 'dirty' for an array of another   *)
(* length than the pattern, before any item is checked; for an array as    *)
(* long as the pattern it throws for the lowest index whose item does not  *)
(* match and passes otherwise; in loose mode an array with extra trailing  *)
(* items passes when the leading items match.                              *)
C19_TupleAssert == TupleStrictContract /\ TupleLooseContract

(* The predicates that were registered for a token and not taken out.     *)
RegisteredFor(token) ==
  {prototypes[i].validate : i \in {j \in DOMAIN prototypes :
                                      prototypes[j].proto = token}}

(* What typeof decides for a token that is neither a Prototype nor in the  *)
(* registry: NaN, a regular expression, a constructor, or something else.  *)
Unregistered(token, value) ==
  CASE token.kind = "nan" -> value = Num("NaN")
    [] token.kind = "regexp" -> value \in {Str("x"), Str("xy")}
    [] token.kind = "constructor" ->
         /\ value.t = "instance"
         /\ value.s = token.name \/ (value.s = "Sub" /\ token.name = "Custom")
    [] OTHER -> FALSE

AsynchDefers ==
  /\ (op.name = "asynch") => (rule.calls = 0 /\ use(rule) = "Any")
  /\ (op.name = "check" /\ rule.settled # "fulfilled") => result.v = Null
  /\ rule.switches <= 1
  /\ rule.calls <= 1

(* C21 as stated: fn runs after asynch has returned; until fn's result has *)
(* resolved every check passes; once it has resolved every check uses the  *)
(* pattern built from it; the switch happens at most once.                 *)
C21_AnyUntilResolved ==
  /\ AsynchDefers
  /\ (op.name = "check" /\ rule.settled = "fulfilled")
       => result.v = typeCatch(createRule(rule.res), op.value)

(* C21, amended: fn runs after asynch has returned; until the callback     *)
(* that follows fn's result has run, which is later than the result, every *)
(* check passes; from then on every check uses the pattern built from the  *)
(* result; the switch happens at most once, and never when fn throws or    *)
(* its promise is rejected.                                                *)
C21_AnyUntilSwitched ==
  /\ AsynchDefers
  /\ (op.name = "check" /\ rule.switches = 0) => result.v = Null
  /\ (op.name = "check" /\ rule.switches = 1)
       => result.v = typeCatch(createRule(rule.res), op.value)
  /\ (rule.switches = 1) => (rule.settled = "fulfilled" /\ rule.field = use(rule))
  /\ (rule.settled # "fulfilled") => (use(rule) = "Any" /\ rule.field = "Any")

(* fn returned a promise that was fulfilled with String, the switch has    *)
(* run, and a number is checked: it does not match.                        *)
C21_Witness ==
  /\ op.name = "check"
  /\ rule.fn.k = "promise"
  /\ rule.settled = "fulfilled"
  /\ rule.switches = 1
  /\ use(rule) = "String"
  /\ op.value = Num("12")
  /\ result.v = Err("TyError")

(* C22: commit(T) keeps the data of that moment under T, in place of what *)
(* T had; no other call changes what is kept, neither a write nor undo,    *)
(* redo or clear; reset(T) makes the data equal to what is kept under T.   *)
(* So after commit(T) and any writes, reset(T) gives the data of the       *)
(* moment of the last commit(T).                                           *)
C22_ResetRestoresCommit ==
  [][/\ (op'.name = "commit") =>
          (/\ trace'.commits[op'.key] = trace.data
           /\ trace'.data = trace.data
           /\ \A t \in DOMAIN trace.commits \ {op'.key} :
                /\ t \in DOMAIN trace'.commits
                /\ trace'.commits[t] = trace.commits[t])
     /\ (op'.name # "commit") => (trace'.commits = trace.commits)
     /\ (op'.name = "reset" /\ op'.key \in DOMAIN trace.commits) =>
          (trace'.data = trace.commits[op'.key])]_vars

(* e and f keep different data; after a clear, reset(e) has changed the    *)
(* data to what e keeps.                                                   *)
C22_Witness ==
  /\ op.name = "reset"
  /\ op.key = "e"
  /\ DOMAIN trace.commits = {"e", "f"}
  /\ trace.commits["f"] # trace.commits["e"]
  /\ trace.data = trace.commits["e"]
  /\ op.data # trace.data
  /\ trace.history = <<>>

(* The undo() that op keeps had a write to revert: it has left a patch on  *)
(* the redo tail.                                                          *)
Reverted == op.name = "undo" /\ op.prev = True

(* C23: undo() gives the key of the most recent write the value it had     *)
(* before that write; redo() right after an undo() that reverted a write   *)
(* gives the data of before the undo(); a write cuts the redo tail, and    *)
(* redo() with no redo tail changes nothing.                               *)
C23_UndoRedo ==
  [][/\ (op'.name = "trace.set") =>
          (/\ trace'.redo = <<>>
           /\ trace'.history # <<>>
           /\ trace'.history[Len(trace'.history)]
                = PatchOf(op'.key, trace.data[op'.key]))
     /\ (op'.name = "undo" /\ trace.history # <<>>) =>
          (trace'.data =
             (trace.history[Len(trace.history)].key
                :> trace.history[Len(trace.history)].value) @@ trace.data)
     /\ (op.name = "undo" /\ Reverted /\ op'.name = "redo") =>
          (trace'.data = op.data)
     /\ (op'.name = "redo" /\ trace.redo = <<>>) =>
          (trace'.data = trace.data)]_vars

(* A redo right after an undo has brought back the data of before the      *)
(* undo, which the undo had changed.                                       *)
C23_Witness ==
  /\ op.name = "redo"
  /\ trace.history # <<>>
  /\ trace.history[Len(trace.history)].value # trace.data[trace.history[Len(trace.history)].key]
  /\ trace.redo = <<>>
  /\ op.data # trace.data

(* --------------------- the $validate selector ------------------------- *)

(* Validators of the field: passing, failing with each kind of message,    *)
(* failing with an Error, returning an array, throwing.                    *)
SelectorValidators ==
  {Validator(Absent, Const(True), Val(Str("never shown"))),
   Validator(Absent, Const(False), Val(Str("too long"))),
   Validator(Absent, Const(False), Absent),
   Validator(Absent, Const(Err("bad")), Val(Str("as text"))),
   Validator(Absent, Const(False), Const(Str("by function"))),
   Validator(Absent, Const(False), Throws),
   Validator(Absent, Const(Arr("e0,e1")), Absent),
   Validator(Absent, Throws, Val(Str("throwing")))}

(* Validator objects handed to the selector itself.                        *)
CustomValidators ==
  {Validator(Absent, Const(True), Val(Str("never shown"))),
   Validator(Absent, Const(False), Val(Str("custom"))),
   Validator(Absent, Throws, Val(Str("throwing")))}

SelectorSchemas ==
  {One([NoDef EXCEPT !.validators = vs, !.disabled = d, !.catch = c]) :
     vs \in UNION {[1..n -> SelectorValidators] : n \in 0..MaxValidators},
     d \in {NAbsent, NVal(True)},
     c \in {Absent, Const(Str("substitute"))}}

(* Indexes a caller passes: those of the validators and one beyond them.   *)
Indexes == 0..MaxValidators

(* ()  ([])  ([start])  ([start, end])  (i)  (i, j)  ([validator, ...])    *)
Selectors ==
  {Sel("none", <<>>, <<>>)}
  \cup {Sel("range", <<>>, <<>>)}
  \cup {Sel("range", <<start>>, <<>>) : start \in Indexes}
  \cup {Sel("range", <<start, end>>, <<>>) : start \in Indexes, end \in Indexes}
  \cup {Sel("indexes", r, <<>>) :
          r \in UNION {[1..n -> Indexes] : n \in 1..MaxValidators}}
  \cup {Sel("custom", <<>>, vs) :
          vs \in UNION {[1..n -> CustomValidators] : n \in 1..MaxValidators}}

DValidate ==
  \E key \in DOMAIN schema, value \in {Str("x")}, sel \in Selectors :
    /\ idle
    /\ op' = Op("$validate", key, value, Undefined, sel)
    /\ result' = dvalidate(key, value, sel, M0)
    /\ UNCHANGED <<schema, onErrorRet, store, heap, ty, prototypes, others>>

InitSelector ==
  /\ schema \in SelectorSchemas
  /\ onErrorRet = Undefined
  /\ op = Idle
  /\ store = EmptyObj
  /\ heap = FirstFree
  /\ prototypes = Registered
  /\ rule = NoRule
  /\ microtasks = <<>>
  /\ trace = NoTrace
  /\ ty = Facade
  /\ result = Ret(Undefined, M0)

NextSelector == DValidate \/ Done

SpecSelector == InitSelector /\ [][NextSelector]_vars

(* The validators the selector of op works on: its own argument, or the    *)
(* field's.                                                                *)
Used ==
  IF op.data.k = "custom" THEN op.data.vs ELSE schema[op.key].validators

(* The indexes the arguments of op choose, in the order they choose them.  *)
Chosen ==
  LET sel == op.data
      start == IF sel.k = "range" /\ Len(sel.r) >= 1 THEN sel.r[1] ELSE 0
      end == IF sel.k = "range" /\ Len(sel.r) >= 2 THEN sel.r[2]
             ELSE Len(Used) - 1
  IN IF sel.k = "indexes" THEN sel.r
     ELSE [i \in 1..(IF end >= start THEN end - start + 1 ELSE 0) |->
             start + i - 1]

(* The selector of op returns at once.                                     *)
Unselected == Truthy(disabled(op.key, M0).v) \/ op.data.k = "none"

(* Those of them that have a validator.                                    *)
Present ==
  IF Unselected THEN <<>>
  ELSE SelectSeq(Chosen, LAMBDA i : i + 1 \in 1..Len(Used))

(* A validator whose exception ends a run that has no try/catch.           *)
Propagates(validator) ==
  validator.determine = Throws
    \/ (validator.determine = Absent /\ validator.validate = Throws)

(* The places in Present of the validators whose exception ends the run.  *)
Stops ==
  {j \in 1..Len(Present) :
     op.data.k = "custom" /\ Propagates(Used[Present[j] + 1])}

(* The validators that run: all the present ones, or, without try/catch,   *)
(* those up to the first that throws.                                      *)
Ran ==
  IF Stops = {} THEN Present
  ELSE SubSeq(Present, 1, CHOOSE j \in Stops : \A k \in Stops : j <= k)

(* The call a run of validator i starts with.                              *)
FirstCall(i) ==
  ValidatorMeta(i, IF isFunction(Used[i + 1].determine) THEN "determine"
                   ELSE "validate")

(* The first calls among the calls of op, in order.                        *)
Runs ==
  LET starts == SelectSeq(Calls, LAMBDA c :
                  \E i \in 0..(Len(Used) - 1) : c.fn = FirstCall(i))
  IN [j \in 1..Len(starts) |-> starts[j].fn]

(* A validator that fails whatever the catch handler does, and one whose   *)
(* outcome the catch handler decides.                                      *)
Fails(validator) ==
  /\ validator.determine \in {Absent, Const(True)}
  /\ validator.validate \in {Const(False), Const(Err("bad"))}

Caught(validator) == Throws \in {validator.determine, validator.validate}

(* The selector of op did what its arguments ask for.                      *)
SelectorHolds ==
  IF Unselected
  THEN /\ result.st = "ret"
       /\ result.v = <<>>
       /\ ~ CalledAny(ValidatorCalls)
  ELSE /\ Runs = [j \in 1..Len(Ran) |-> FirstCall(Ran[j])]
       /\ IF Stops # {}
          THEN /\ result.st = "throw"
               /\ ~ CalledAny({"onError", "catch"})
          ELSE /\ result.st = "ret"
               /\ \A j \in 1..Len(result.v) :
                    \E k \in 1..Len(Ran) : result.v[j].at = Ran[k]
               /\ SelectSeq([j \in 1..Len(result.v) |-> result.v[j].at],
                            LAMBDA i : ~ Caught(Used[i + 1]))
                    = SelectSeq(Ran, LAMBDA i : Fails(Used[i + 1]))

(* A validator that ran under try/catch gave an array.                     *)
ArrayRun ==
  /\ op.data.k # "custom"
  /\ \E j \in 1..Len(Ran) : isArray(Used[Ran[j] + 1].validate.v)

(* C24: the selector of $validate runs exactly the validators its          *)
(* arguments choose - start..end for [start, end], the given indexes in    *)
(* the given order, the given validator objects without try/catch -, skips *)
(* the indexes that have no validator, gives every error the index of its  *)
(* validator as `at`, and returns [] with no argument or for a disabled    *)
(* field.                                                                  *)
C24_Selector == (op.name = "$validate") => SelectorHolds

(* The same, when no validator that ran gave an array.                     *)
SelectorUnlessArray ==
  (op.name = "$validate" /\ ~ ArrayRun) => SelectorHolds

(* The message the claim gives the error e of the validator at e.at.       *)
MessageResolved(e) ==
  LET validator == Used[e.at + 1]
      message == validator.message
      res == IF validator.validate.k = "const" THEN validator.validate.v
             ELSE Str("substitute")
      tpl == Str(op.key \o " did not pass validators[" \o IdxStr(e.at) \o "]")
  IN IF message.k = "const" THEN e.message = message.v
     ELSE IF message = Throws /\ isFunction(schema[op.key].catch)
       THEN Truthy(e.message)
     ELSE IF isString(MetaValue(message))
       THEN e.message \in {message.v}
              \cup (IF isError(res) THEN {Str(res.s)} ELSE {})
     ELSE IF isError(res) THEN e.message = Str(res.s)
     ELSE e.message = tpl

(* A validator whose validate function throws (under try/catch): its       *)
(* error is routed, and it gives an error only for a substitute of the     *)
(* catch handler.                                                          *)
ThrownIsPassed ==
  \A j \in 1..Len(Ran) :
    (op.data.k # "custom" /\ Used[Ran[j] + 1].validate = Throws) =>
      /\ \E i \in 1..Len(Log) :
           Log[i].meta = ValidatorMeta(Ran[j], "validate")
      /\ (\E i \in 1..Len(result.v) : result.v[i].at = Ran[j])
           <=> isFunction(schema[op.key].catch)

(* C25: a failed validator's error has the message its message function    *)
(* returns, else its message string, else the Error's message, else a      *)
(* non-empty default made of the key and the validator index; a validator  *)
(* whose validate function throws counts as passed once the error is       *)
(* routed, unless the catch handler returns a substitute.                  *)
C25_Message ==
  (op.name = "$validate" /\ result.st = "ret") =>
    /\ \A j \in 1..Len(result.v) : MessageResolved(result.v[j])
    /\ ThrownIsPassed

(* The same, for the errors of validators that have a message or fail      *)
(* with an Error.                                                          *)
MessageUnlessNone ==
  (op.name = "$validate" /\ result.st = "ret") =>
    /\ \A j \in 1..Len(result.v) :
         (Used[result.v[j].at + 1].message # Absent
            \/ isError(Used[result.v[j].at + 1].validate.v))
           => MessageResolved(result.v[j])
    /\ ThrownIsPassed

(* ------------------------ the Prototype registry ---------------------- *)

(* The predicates the registry reg keeps for proto, as Prototype.find      *)
(* looks for it.                                                           *)
Kept(reg, proto) ==
  {reg[i].validate : i \in {j \in DOMAIN reg : StrictEqual(reg[j].proto, proto)}}

(* The entries of reg for the tokens other than proto, in order.           *)
Others(reg, proto) == SelectSeq(reg, LAMBDA item : item.proto # proto)

(* reg has no two entries for one token.                                   *)
OnePerToken(reg) ==
  \A i, j \in DOMAIN reg : reg[i].proto = reg[j].proto => i = j

(* What register and unregister promise for the call that op' keeps.       *)
RegistryStep ==
  /\ OnePerToken(prototypes')
  /\ (op'.name = "register") =>
       (/\ Kept(prototypes', op'.data) = {op'.key}
        /\ Others(prototypes', op'.data) = Others(prototypes, op'.data))
  /\ (op'.name = "unregister") =>
       (/\ Kept(prototypes', op'.data) = {}
        /\ Others(prototypes', op'.data) = Others(prototypes, op'.data))

(* C26: after any register and unregister calls the registry has at most   *)
(* one entry per token; register(t, p) makes find(t) give an entry with    *)
(* predicate p, unregister(t) makes find(t) give nothing, and both leave   *)
(* the entries of the other tokens as they were - for every token, NaN     *)
(* and Infinity included.                                                  *)
C26_Registry == [][RegistryStep]_vars

(* The same for the tokens other than NaN, where unregister has not        *)
(* thrown.                                                                 *)
RegistryUnlessNaN ==
  [][(/\ op'.name \in {"register", "unregister"} => op'.data # NaNToken
      /\ result'.st = "ret"
      /\ OnePerToken(prototypes))
       => RegistryStep]_vars

(* --------------------------- Ty listeners ----------------------------- *)

(* The call that op keeps is a check that failed.                          *)
FailedCheck ==
  /\ op.name \in {"expect", "catch", "is"}
  /\ typeCatch(op.key, op.value) # Null

(* One callback for each binding of listeners, in bind order.              *)
Deliveries(listeners, error) ==
  [i \in DOMAIN listeners |->
     [kind |-> "listener", fn |-> listeners[i], arg |-> error]]

(* C27: the error of a failed expect, catch or is().typeof goes to each    *)
(* listener bound at the failure, once per binding, in bind order, and     *)
(* only after the call: the call queues the deliveries behind those        *)
(* already waiting - silent or not, throwing or not -, a delivery calls    *)
(* the listener it was queued for, and no bind, unbind or silent takes a   *)
(* delivery off the queue.                                                 *)
C27_Delivery ==
  [][/\ FailedCheck' =>
          (microtasks' = microtasks
             \o Deliveries(ty._listeners, typeCatch(op'.key, op'.value)))
     /\ (op'.name \in {"expect", "catch", "is"} /\ ~ FailedCheck') =>
          (microtasks' = microtasks)
     /\ (op'.name = "listener") =>
          (/\ microtasks # <<>>
           /\ op'.key = Head(microtasks).fn
           /\ op'.value = Head(microtasks).arg
           /\ microtasks' = Tail(microtasks))
     /\ (op'.name \in {"bind", "unbind", "silent", "new"}) =>
          (microtasks' = microtasks)]_vars

(* A listener that was unbound after the failure is called with the error, *)
(* on a silent Ty, while another delivery is still waiting.                *)
C27_Witness ==
  /\ op.name = "listener"
  /\ op.value = Err("TyError")
  /\ ty._silent
  /\ \A i \in DOMAIN ty._listeners : ty._listeners[i] # op.key
  /\ microtasks # <<>>

(* C28: after unbind(fn), fn is not registered, however often it was       *)
(* bound, and the other listeners are registered in the order they had.    *)
C28_Unbind ==
  [][(op'.name = "unbind") =>
       (ty'._listeners
          = SelectSeq(ty._listeners, LAMBDA item : item # op'.key))]_vars

(* The same, when no two bindings of fn are next to each other.            *)
UnbindUnlessAdjacent ==
  [][(/\ op'.name = "unbind"
      /\ \A i \in 1..(Len(ty._listeners) - 1) :
           ~ (ty._listeners[i] = op'.key /\ ty._listeners[i + 1] = op'.key))
       => (ty'._listeners
             = SelectSeq(ty._listeners, LAMBDA item : item # op'.key))]_vars

====
